---- MODULE Spec2Model ----
(***************************************************************************)
(* A model of the blockchain p2p synchronization protocol of              *)
(* blockchain/src/protocol.rs: one Node, its storage, mempool and peer    *)
(* table, driven by its public operations (process_message, synchronize,  *)
(* peer_connected, peer_diconnected, create_block).                       *)
(*                                                                         *)
(* The collaborators whose code is not part of protocol.rs (the Storage   *)
(* implementation, Mempool, BlockchainState, the short-id transform and   *)
(* the signature scheme) are modelled from their contracts.               *)
(***************************************************************************)
EXTENDS Integers, Sequences, FiniteSets, TLC

VARIABLES
    storage,            \* Node::storage : [tip, blocks, state]
    target_tip,         \* Node::target_tip : BlockHeader
    peers,              \* Node::peers : PeerIdentifier -> PeerInfo
    shortid_nonce,      \* Node::shortid_nonce
    shortid_nonce_ttl,  \* Node::shortid_nonce_ttl
    mempool,            \* Node::mempool : [state, timestamp_ms, entries]
    now,                \* the clock read by Instant::now(), in seconds
    sent,               \* the messages the last operation handed to Network::send
    result              \* the last operation and what it returned

vars == <<storage, target_tip, peers, shortid_nonce, shortid_nonce_ttl,
          mempool, now, sent, result>>

node == <<storage, target_tip, peers, shortid_nonce, shortid_nonce_ttl, mempool>>

(***************************************************************************)
(* Program constants                                                       *)
(***************************************************************************)
CURRENT_VERSION == 0

SHORTID_NONCE_TTL == 50

INTERVAL_SECS == 60

(***************************************************************************)
(* Bounds of the model                                                     *)
(***************************************************************************)
\* Heights of the blocks and tips the environment offers, and of the chain.
MaxHeight == 2

\* Ticks explored from a fresh node by the specification Spec.
MaxTicks == 1

\* The last second of the clock.
MaxTime == 122

\* The height of the chain of the peer a fresh node synchronizes with.
SyncHeight == 3

(***************************************************************************)
(* Values                                                                  *)
(***************************************************************************)
PeerIds == {"p1", "p2"}

SelfId == "self"

NetworkKey == "net"

Keys == {"net", "mallory"}

\* The values of a nonce (u64 in the code).
Nonces == {0, 1}

\* The timestamps given to create_block (u64 milliseconds in the code).
Timestamps == {0, 1}

\* The values of a short id (6 bytes in the code).
ShortIDs == {0, 1, 2}

\* "bad" is a transaction that fails verification; t3 spends the same output as t1.
Txs == {"t1", "t2", "t3", "t4", "bad"}

TxInput(tx) ==
    CASE tx = "t1" -> "u1"
      [] tx = "t2" -> "u2"
      [] tx = "t3" -> "u1"
      [] tx = "t4" -> "u3"
      [] OTHER -> "none"

TxNum(tx) ==
    CASE tx = "t1" -> 1
      [] tx = "t2" -> 2
      [] tx = "t3" -> 3
      [] tx = "t4" -> 6
      [] OTHER -> 4

PidNum(pid) ==
    CASE pid = "p1" -> 1
      [] pid = "p2" -> 2
      [] OTHER -> 0

Max(a, b) == IF a >= b THEN a ELSE b

Range(s) == {s[i] : i \in 1..Len(s)}

RECURSIVE SetToSeqs(_)
\* every ordering of a finite set: the iteration orders a HashMap may produce
SetToSeqs(S) ==
    IF S = {} THEN {<<>>}
    ELSE UNION {{<<x>> \o s : s \in SetToSeqs(S \ {x})} : x \in S}

(***************************************************************************)
(* Block headers, ids and signatures                                       *)
(***************************************************************************)
\* BlockHeader::id(): a pure, injective function of the header's contents.
Id(header) == <<header.height, header.prev, header.timestamp_ms, header.txroot>>

Genesis == [height |-> 0, prev |-> <<>>, timestamp_ms |-> 0, txroot |-> <<>>]

\* A signature over a block id ("ZkVM.stubnet1" transcript, block_id message).
Sign(id, key) == [id |-> id, key |-> key]

\* As Create_block_signature, but the id signed is that of the previous block.
Create_block_signature_OfPrev(header, privkey) == Sign(header.prev, privkey)

Create_block_signature(header, privkey) == Sign(Id(header), privkey)

\* As Verify_block_signature, but the signed message is not compared with the
\* header's id: any signature of the authority verifies.
Verify_block_signature_KeyOnly(header, signature, pubkey) ==
    signature.key = pubkey

Verify_block_signature(header, signature, pubkey) ==
    signature.key = pubkey /\ signature.id = Id(header)

(***************************************************************************)
(* BlockchainState (contract: apply_block is an atomic transition)         *)
(***************************************************************************)
InitialUtxos == {"u1", "u2", "u3"}

GenesisState == [tip |-> Genesis, utxos |-> InitialUtxos]

RECURSIVE ApplyTxs(_, _)
\* Applies the transactions in order to a set of unspent outputs.
ApplyTxs(utxos, txs) ==
    IF txs = <<>> THEN [err |-> <<"Ok">>, utxos |-> utxos]
    ELSE IF Head(txs) = "bad" THEN [err |-> <<"TxValidation">>, utxos |-> utxos]
    ELSE IF TxInput(Head(txs)) \notin utxos
         THEN [err |-> <<"UtreexoError">>, utxos |-> utxos]
    ELSE ApplyTxs(utxos \ {TxInput(Head(txs))}, Tail(txs))

\* BlockchainState::apply_block(header, txs, bp_gens): the new state, or an error.
Apply_block(state, header, txs) ==
    IF \/ header.height # state.tip.height + 1
       \/ header.prev # Id(state.tip)
       \/ header.txroot # txs
    THEN [err |-> <<"InconsistentHeader">>, state |-> state]
    ELSE LET r == ApplyTxs(state.utxos, txs)
         IN  IF r.err # <<"Ok">> THEN [err |-> r.err, state |-> state]
             ELSE [err |-> <<"Ok">>, state |-> [tip |-> header, utxos |-> r.utxos]]

(***************************************************************************)
(* Mempool (contract of section "Mempool")                                 *)
(***************************************************************************)
Mempool_new(state, timestamp_ms) ==
    [state |-> state, timestamp_ms |-> timestamp_ms, entries |-> <<>>]

\* The inputs already claimed by the entries of the mempool.
SpentByEntries(entries) == {TxInput(entries[i]) : i \in 1..Len(entries)}

\* As Mempool_append, but the outputs spent by the entries are not looked at.
Mempool_append_NoProofCheck(mp, tx) ==
    IF tx = "bad" THEN [err |-> <<"TxValidation">>, mempool |-> mp]
    ELSE [err |-> <<"Ok">>, mempool |-> [mp EXCEPT !.entries = Append(@, tx)]]

\* Mempool::append(tx): verify, then insert; a classified error otherwise.
Mempool_append(mp, tx) ==
    IF tx = "bad" THEN [err |-> <<"TxValidation">>, mempool |-> mp]
    ELSE IF TxInput(tx) \notin (mp.state.utxos \ SpentByEntries(mp.entries))
         THEN [err |-> <<"UtreexoError">>, mempool |-> mp]
    ELSE [err |-> <<"Ok">>, mempool |-> [mp EXCEPT !.entries = Append(@, tx)]]

\* Mempool::update_timestamp(ms): the clock only advances.
Mempool_update_timestamp(mp, ms) ==
    [mp EXCEPT !.timestamp_ms = Max(@, ms)]

\* Mempool::make_block(): the state after a block made of every entry; the
\* mempool itself is left as it is.
Mempool_make_block(mp) ==
    [tip |-> [height |-> mp.state.tip.height + 1,
              prev |-> Id(mp.state.tip),
              timestamp_ms |-> mp.timestamp_ms,
              txroot |-> mp.entries],
     utxos |-> mp.state.utxos \ SpentByEntries(mp.entries)]

\* Mempool::update_state(new_state, catchup): re-bases the entries onto the
\* new state, dropping those whose inputs were consumed.
Mempool_update_state(mp, new_state) ==
    [mp EXCEPT !.state = new_state,
               !.entries = SelectSeq(@, LAMBDA tx : TxInput(tx) \in new_state.utxos)]

(***************************************************************************)
(* Storage (contract of trait Storage)                                     *)
(***************************************************************************)
GenesisSignature == Sign(Id(Genesis), "genesis")

InitialStorage ==
    [tip |-> [header |-> Genesis, signature |-> GenesisSignature],
     blocks |-> <<>>,
     state |-> GenesisState]

Tip_height(st) == st.tip.header.height

Tip_id(st) == Id(st.tip.header)

\* Storage::block_at_height: the block, as a sequence of at most one element.
Block_at_height(st, height) ==
    IF height \in 1..Len(st.blocks) THEN <<st.blocks[height]>> ELSE <<>>

\* Storage::store_block(block, new_state, catchup, vtxs)
Store_block(st, block, new_state) ==
    [tip |-> [header |-> block.header, signature |-> block.signature],
     blocks |-> Append(st.blocks, block),
     state |-> new_state]

(***************************************************************************)
(* Short ids                                                               *)
(***************************************************************************)
\* shortid::Transform::new(nonce, peer_id).apply(txid): a keyed hash into a
\* small space, so that distinct transactions may collide.
Shorten(nonce, pid, txid) == (nonce + PidNum(pid) + TxNum(txid)) % Cardinality(ShortIDs)

\* ShortID::at_position(offset, list): the id at that position, if any.
At_position(offset, list) ==
    IF offset < Len(list) THEN <<list[offset + 1]>> ELSE <<>>

\* ShortID::scan(list)
Scan(list) == Range(list)

(***************************************************************************)
(* Messages                                                                *)
(***************************************************************************)
GetInventoryMsg(version, nonce) ==
    [kind |-> "GetInventory", version |-> version, shortid_nonce |-> nonce]

InventoryMsg(version, tip, tip_signature, nonce, list) ==
    [kind |-> "Inventory", version |-> version, tip |-> tip,
     tip_signature |-> tip_signature, shortid_nonce |-> nonce, shortid_list |-> list]

GetBlockMsg(height) == [kind |-> "GetBlock", height |-> height]

BlockMsg(header, signature, txs) ==
    [kind |-> "Block", header |-> header, signature |-> signature, txs |-> txs]

GetMempoolTxsMsg(nonce, list) ==
    [kind |-> "GetMempoolTxs", shortid_nonce |-> nonce, shortid_list |-> list]

MempoolTxsMsg(tip, txs) == [kind |-> "MempoolTxs", tip |-> tip, txs |-> txs]

Send(pid, msg) == [to |-> pid, msg |-> msg]

Ok == <<"Ok">>

Returned(op, val) == [op |-> op, val |-> val]

(***************************************************************************)
(* Node::new                                                               *)
(***************************************************************************)
Init ==
    /\ storage = InitialStorage
    /\ target_tip = InitialStorage.state.tip
    /\ mempool = Mempool_new(InitialStorage.state, InitialStorage.state.tip.timestamp_ms)
    /\ peers = <<>>
    /\ shortid_nonce \in Nonces
    /\ shortid_nonce_ttl = SHORTID_NONCE_TTL
    /\ now = 0
    /\ sent = <<>>
    /\ result = Returned("new", Ok)

(***************************************************************************)
(* Peer connect and disconnect                                             *)
(***************************************************************************)
Request_inventory(pid, nonce) == Send(pid, GetInventoryMsg(CURRENT_VERSION, nonce))

NewPeerInfo ==
    [tip |-> <<>>,
     needs_our_inventory |-> FALSE,
     their_short_id_nonce |-> 0,
     shortid_nonce |-> shortid_nonce,
     shortid_list |-> <<>>,
     last_inventory_received |-> now]

\* As Peer_connected, but the peer is not asked for its inventory.
Peer_connected_NoRequest(pid) ==
    /\ peers' = [p \in DOMAIN peers \cup {pid} |-> IF p = pid THEN NewPeerInfo ELSE peers[p]]
    /\ sent' = <<>>
    /\ result' = Returned("peer_connected", Ok)
    /\ UNCHANGED <<storage, target_tip, shortid_nonce, shortid_nonce_ttl, mempool, now>>

Peer_connected(pid) ==
    /\ peers' = [p \in DOMAIN peers \cup {pid} |-> IF p = pid THEN NewPeerInfo ELSE peers[p]]
    /\ sent' = <<Request_inventory(pid, shortid_nonce)>>
    /\ result' = Returned("peer_connected", Ok)
    /\ UNCHANGED <<storage, target_tip, shortid_nonce, shortid_nonce_ttl, mempool, now>>

Peer_diconnected(pid) ==
    /\ peers' = [p \in DOMAIN peers \ {pid} |-> peers[p]]
    /\ sent' = <<>>
    /\ result' = Returned("peer_diconnected", Ok)
    /\ UNCHANGED <<storage, target_tip, shortid_nonce, shortid_nonce_ttl, mempool, now>>

(***************************************************************************)
(* Message handlers                                                        *)
(***************************************************************************)
\* As Process_inventory_request, but a peer that is not in the table is
\* entered into it.
Process_inventory_request_InsertUnknown(pid, request) ==
    /\ IF request.version # CURRENT_VERSION
       THEN /\ result' = Returned("process_inventory_request", <<"IncompatibleVersion">>)
            /\ UNCHANGED peers
       ELSE /\ peers' = [p \in DOMAIN peers \cup {pid} |->
                            IF p = pid
                            THEN [(IF pid \in DOMAIN peers THEN peers[pid] ELSE NewPeerInfo)
                                     EXCEPT !.needs_our_inventory = TRUE,
                                            !.their_short_id_nonce = request.shortid_nonce]
                            ELSE peers[p]]
            /\ result' = Returned("process_inventory_request", Ok)
    /\ sent' = <<>>
    /\ UNCHANGED <<storage, target_tip, shortid_nonce, shortid_nonce_ttl, mempool, now>>

Process_inventory_request(pid, request) ==
    /\ IF request.version # CURRENT_VERSION
       THEN /\ result' = Returned("process_inventory_request", <<"IncompatibleVersion">>)
            /\ UNCHANGED peers
       ELSE /\ peers' = IF pid \in DOMAIN peers
                        THEN [peers EXCEPT ![pid].needs_our_inventory = TRUE,
                                           ![pid].their_short_id_nonce = request.shortid_nonce]
                        ELSE peers
            /\ result' = Returned("process_inventory_request", Ok)
    /\ sent' = <<>>
    /\ UNCHANGED <<storage, target_tip, shortid_nonce, shortid_nonce_ttl, mempool, now>>

\* As Receive_inventory, but a verified tip is adopted whatever its height.
Receive_inventory_NoHeightCheck(pid, inventory) ==
    /\ IF inventory.version # CURRENT_VERSION
       THEN /\ result' = Returned("receive_inventory", <<"IncompatibleVersion">>)
            /\ UNCHANGED <<target_tip, peers>>
       ELSE IF ~Verify_block_signature(inventory.tip, inventory.tip_signature, NetworkKey)
       THEN /\ result' = Returned("receive_inventory", <<"InvalidBlockSignature">>)
            /\ UNCHANGED <<target_tip, peers>>
       ELSE /\ target_tip' = inventory.tip
            /\ peers' = IF pid \in DOMAIN peers
                        THEN [peers EXCEPT ![pid].tip = <<inventory.tip>>,
                                           ![pid].shortid_nonce = inventory.shortid_nonce,
                                           ![pid].shortid_list = inventory.shortid_list]
                        ELSE peers
            /\ result' = Returned("receive_inventory", Ok)
    /\ sent' = <<>>
    /\ UNCHANGED <<storage, shortid_nonce, shortid_nonce_ttl, mempool, now>>

\* As Receive_inventory, but a tip of the target's own height is verified too.
Receive_inventory_HeightGe(pid, inventory) ==
    /\ IF inventory.version # CURRENT_VERSION
       THEN /\ result' = Returned("receive_inventory", <<"IncompatibleVersion">>)
            /\ UNCHANGED <<target_tip, peers>>
       ELSE IF /\ inventory.tip.height >= target_tip.height
               /\ ~Verify_block_signature(inventory.tip, inventory.tip_signature, NetworkKey)
       THEN /\ result' = Returned("receive_inventory", <<"InvalidBlockSignature">>)
            /\ UNCHANGED <<target_tip, peers>>
       ELSE /\ target_tip' = IF inventory.tip.height >= target_tip.height
                             THEN inventory.tip ELSE target_tip
            /\ peers' = IF pid \in DOMAIN peers
                        THEN [peers EXCEPT ![pid].tip = <<inventory.tip>>,
                                           ![pid].shortid_nonce = inventory.shortid_nonce,
                                           ![pid].shortid_list = inventory.shortid_list]
                        ELSE peers
            /\ result' = Returned("receive_inventory", Ok)
    /\ sent' = <<>>
    /\ UNCHANGED <<storage, shortid_nonce, shortid_nonce_ttl, mempool, now>>

\* As Receive_inventory, but the peer's record is updated before the version
\* is checked.
Receive_inventory_VersionCheckLate(pid, inventory) ==
    /\ peers' = IF pid \in DOMAIN peers
                THEN [peers EXCEPT ![pid].tip = <<inventory.tip>>,
                                   ![pid].shortid_nonce = inventory.shortid_nonce,
                                   ![pid].shortid_list = inventory.shortid_list]
                ELSE peers
    /\ IF inventory.version # CURRENT_VERSION
       THEN /\ result' = Returned("receive_inventory", <<"IncompatibleVersion">>)
            /\ UNCHANGED target_tip
       ELSE IF /\ inventory.tip.height > target_tip.height
               /\ ~Verify_block_signature(inventory.tip, inventory.tip_signature, NetworkKey)
       THEN /\ result' = Returned("receive_inventory", <<"InvalidBlockSignature">>)
            /\ UNCHANGED target_tip
       ELSE /\ target_tip' = IF inventory.tip.height > target_tip.height
                             THEN inventory.tip ELSE target_tip
            /\ result' = Returned("receive_inventory", Ok)
    /\ sent' = <<>>
    /\ UNCHANGED <<storage, shortid_nonce, shortid_nonce_ttl, mempool, now>>

\* As Receive_inventory, but the inventory is stored with the peer before
\* the signature of the tip is looked at.
Receive_inventory_StoreFirst(pid, inventory) ==
    /\ IF inventory.version # CURRENT_VERSION
       THEN /\ result' = Returned("receive_inventory", <<"IncompatibleVersion">>)
            /\ UNCHANGED <<target_tip, peers>>
       ELSE /\ peers' = IF pid \in DOMAIN peers
                        THEN [peers EXCEPT ![pid].tip = <<inventory.tip>>,
                                           ![pid].shortid_nonce = inventory.shortid_nonce,
                                           ![pid].shortid_list = inventory.shortid_list]
                        ELSE peers
            /\ IF /\ inventory.tip.height > target_tip.height
                  /\ ~Verify_block_signature(inventory.tip, inventory.tip_signature, NetworkKey)
               THEN /\ result' = Returned("receive_inventory", <<"InvalidBlockSignature">>)
                    /\ UNCHANGED target_tip
               ELSE /\ target_tip' = IF inventory.tip.height > target_tip.height
                                     THEN inventory.tip ELSE target_tip
                    /\ result' = Returned("receive_inventory", Ok)
    /\ sent' = <<>>
    /\ UNCHANGED <<storage, shortid_nonce, shortid_nonce_ttl, mempool, now>>

Receive_inventory(pid, inventory) ==
    /\ IF inventory.version # CURRENT_VERSION
       THEN /\ result' = Returned("receive_inventory", <<"IncompatibleVersion">>)
            /\ UNCHANGED <<target_tip, peers>>
       ELSE IF /\ inventory.tip.height > target_tip.height
               /\ ~Verify_block_signature(inventory.tip, inventory.tip_signature, NetworkKey)
       THEN /\ result' = Returned("receive_inventory", <<"InvalidBlockSignature">>)
            /\ UNCHANGED <<target_tip, peers>>
       ELSE /\ target_tip' = IF inventory.tip.height > target_tip.height
                             THEN inventory.tip ELSE target_tip
            /\ peers' = IF pid \in DOMAIN peers
                        THEN [peers EXCEPT ![pid].tip = <<inventory.tip>>,
                                           ![pid].shortid_nonce = inventory.shortid_nonce,
                                           ![pid].shortid_list = inventory.shortid_list]
                        ELSE peers
            /\ result' = Returned("receive_inventory", Ok)
    /\ sent' = <<>>
    /\ UNCHANGED <<storage, shortid_nonce, shortid_nonce_ttl, mempool, now>>

\* As Send_block, but a request above the tip is served with the tip's block.
Send_block_TipForHigher(pid, request) ==
    /\ LET block == Block_at_height(storage, IF request.height > Tip_height(storage)
                                              THEN Tip_height(storage) ELSE request.height)
       IN  IF block = <<>>
           THEN /\ result' = Returned("send_block", <<"BlockNotFound", request.height>>)
                /\ sent' = <<>>
           ELSE /\ sent' = <<Send(pid, block[1])>>
                /\ result' = Returned("send_block", Ok)
    /\ UNCHANGED node
    /\ UNCHANGED now

Send_block(pid, request) ==
    /\ LET block == Block_at_height(storage, request.height)
       IN  IF block = <<>>
           THEN /\ result' = Returned("send_block", <<"BlockNotFound", request.height>>)
                /\ sent' = <<>>
           ELSE /\ sent' = <<Send(pid, block[1])>>
                /\ result' = Returned("send_block", Ok)
    /\ UNCHANGED node
    /\ UNCHANGED now

\* As Receive_block, but the mempool is not moved onto the new state.
Receive_block_NoMempoolUpdate(block_msg) ==
    /\ IF block_msg.header.height # Tip_height(storage) + 1
       THEN /\ result' = Returned("receive_block", <<"BlockNotRelevant", block_msg.header.height>>)
            /\ UNCHANGED <<storage, mempool>>
       ELSE IF ~Verify_block_signature(block_msg.header, block_msg.signature, NetworkKey)
       THEN /\ result' = Returned("receive_block", <<"InvalidBlockSignature">>)
            /\ UNCHANGED <<storage, mempool>>
       ELSE LET applied == Apply_block(storage.state, block_msg.header, block_msg.txs)
            IN  IF applied.err # Ok
                THEN /\ result' = Returned("receive_block", applied.err)
                     /\ UNCHANGED <<storage, mempool>>
                ELSE /\ mempool' = mempool
                     /\ storage' = Store_block(storage, block_msg, applied.state)
                     /\ result' = Returned("receive_block", Ok)
    /\ sent' = <<>>
    /\ UNCHANGED <<target_tip, peers, shortid_nonce, shortid_nonce_ttl, now>>

\* As Receive_block, without the check of the block's height.
Receive_block_NoHeightCheck(block_msg) ==
    /\ IF ~Verify_block_signature(block_msg.header, block_msg.signature, NetworkKey)
       THEN /\ result' = Returned("receive_block", <<"InvalidBlockSignature">>)
            /\ UNCHANGED <<storage, mempool>>
       ELSE LET applied == Apply_block(storage.state, block_msg.header, block_msg.txs)
            IN  IF applied.err # Ok
                THEN /\ result' = Returned("receive_block", applied.err)
                     /\ UNCHANGED <<storage, mempool>>
                ELSE /\ mempool' = Mempool_update_state(mempool, applied.state)
                     /\ storage' = Store_block(storage, block_msg, applied.state)
                     /\ result' = Returned("receive_block", Ok)
    /\ sent' = <<>>
    /\ UNCHANGED <<target_tip, peers, shortid_nonce, shortid_nonce_ttl, now>>

\* As Receive_block, without the check of the block's signature.
Receive_block_NoSignatureCheck(block_msg) ==
    /\ IF block_msg.header.height # Tip_height(storage) + 1
       THEN /\ result' = Returned("receive_block", <<"BlockNotRelevant", block_msg.header.height>>)
            /\ UNCHANGED <<storage, mempool>>
       ELSE LET applied == Apply_block(storage.state, block_msg.header, block_msg.txs)
            IN  IF applied.err # Ok
                THEN /\ result' = Returned("receive_block", applied.err)
                     /\ UNCHANGED <<storage, mempool>>
                ELSE /\ mempool' = Mempool_update_state(mempool, applied.state)
                     /\ storage' = Store_block(storage, block_msg, applied.state)
                     /\ result' = Returned("receive_block", Ok)
    /\ sent' = <<>>
    /\ UNCHANGED <<target_tip, peers, shortid_nonce, shortid_nonce_ttl, now>>

Receive_block(block_msg) ==
    /\ IF block_msg.header.height # Tip_height(storage) + 1
       THEN /\ result' = Returned("receive_block", <<"BlockNotRelevant", block_msg.header.height>>)
            /\ UNCHANGED <<storage, mempool>>
       ELSE IF ~Verify_block_signature(block_msg.header, block_msg.signature, NetworkKey)
       THEN /\ result' = Returned("receive_block", <<"InvalidBlockSignature">>)
            /\ UNCHANGED <<storage, mempool>>
       ELSE LET applied == Apply_block(storage.state, block_msg.header, block_msg.txs)
            IN  IF applied.err # Ok
                THEN /\ result' = Returned("receive_block", applied.err)
                     /\ UNCHANGED <<storage, mempool>>
                ELSE /\ mempool' = Mempool_update_state(mempool, applied.state)
                     /\ storage' = Store_block(storage, block_msg, applied.state)
                     /\ result' = Returned("receive_block", Ok)
    /\ sent' = <<>>
    /\ UNCHANGED <<target_tip, peers, shortid_nonce, shortid_nonce_ttl, now>>

\* As Requested_txs, but the short ids are made with the node's own id.
Requested_txs_SelfId(pid, request) ==
    SelectSeq(mempool.entries,
              LAMBDA tx : Shorten(request.shortid_nonce, SelfId, tx) \in Scan(request.shortid_list))

\* As Served_txs, but the short ids are made with the serving node's own id.
Served_txs_SelfId(self_id, entries, pid, request) ==
    SelectSeq(entries,
              LAMBDA tx : Shorten(request.shortid_nonce, self_id, tx) \in Scan(request.shortid_list))

\* The loop of send_txs in a node with the given id and mempool entries: the
\* entries whose short id, under the request's nonce and the requester's
\* peer id, is among those requested.
Served_txs(self_id, entries, pid, request) ==
    SelectSeq(entries,
              LAMBDA tx : Shorten(request.shortid_nonce, pid, tx) \in Scan(request.shortid_list))

\* The entries this node serves.
Requested_txs(pid, request) == Served_txs(SelfId, mempool.entries, pid, request)

Send_txs(pid, request) ==
    /\ sent' = <<Send(pid, MempoolTxsMsg(Tip_id(storage), Requested_txs(pid, request)))>>
    /\ result' = Returned("send_txs", Ok)
    /\ UNCHANGED node
    /\ UNCHANGED now

\* As Append_txs, but only the first transaction is processed.
Append_txs_FirstOnly(mp, txs) ==
    IF txs = <<>> THEN [err |-> Ok, mempool |-> mp]
    ELSE LET r == Mempool_append(mp, Head(txs))
         IN  [err |-> IF r.err = <<"UtreexoError">> THEN Ok ELSE r.err, mempool |-> r.mempool]

RECURSIVE Append_txs(_, _)
\* The loop of receive_txs: a UtreexoError skips the transaction, any other
\* error stops the loop and is returned.
Append_txs(mp, txs) ==
    IF txs = <<>> THEN [err |-> Ok, mempool |-> mp]
    ELSE LET r == Mempool_append(mp, Head(txs))
         IN  IF r.err = Ok \/ r.err = <<"UtreexoError">>
             THEN Append_txs(r.mempool, Tail(txs))
             ELSE [err |-> r.err, mempool |-> r.mempool]

\* As Receive_txs, but a reply that fails leaves the mempool as it was.
Receive_txs_Atomic(request) ==
    /\ IF request.tip # Tip_id(storage)
       THEN /\ result' = Returned("receive_txs", <<"StaleMempoolState", request.tip>>)
            /\ UNCHANGED mempool
       ELSE LET r == Append_txs(mempool, request.txs)
            IN  /\ mempool' = IF r.err = Ok THEN r.mempool ELSE mempool
                /\ result' = Returned("receive_txs", r.err)
    /\ sent' = <<>>
    /\ UNCHANGED <<storage, target_tip, peers, shortid_nonce, shortid_nonce_ttl, now>>

\* As Receive_txs, but the tip of the reply is not looked at.
Receive_txs_NoTipCheck(request) ==
    /\ LET r == Append_txs(mempool, request.txs)
       IN  /\ mempool' = r.mempool
           /\ result' = Returned("receive_txs", r.err)
    /\ sent' = <<>>
    /\ UNCHANGED <<storage, target_tip, peers, shortid_nonce, shortid_nonce_ttl, now>>

Receive_txs(request) ==
    /\ IF request.tip # Tip_id(storage)
       THEN /\ result' = Returned("receive_txs", <<"StaleMempoolState", request.tip>>)
            /\ UNCHANGED mempool
       ELSE LET r == Append_txs(mempool, request.txs)
            IN  /\ mempool' = r.mempool
                /\ result' = Returned("receive_txs", r.err)
    /\ sent' = <<>>
    /\ UNCHANGED <<storage, target_tip, peers, shortid_nonce, shortid_nonce_ttl, now>>

\* Node::process_message: the handler of the message's kind.
Process_message(pid, message) ==
    CASE message.kind = "GetInventory" -> Process_inventory_request(pid, message)
      [] message.kind = "Inventory" -> Receive_inventory(pid, message)
      [] message.kind = "GetBlock" -> Send_block(pid, message)
      [] message.kind = "Block" -> Receive_block(message)
      [] message.kind = "GetMempoolTxs" -> Send_txs(pid, message)
      [] message.kind = "MempoolTxs" -> Receive_txs(message)

(***************************************************************************)
(* Node::synchronize                                                       *)
(***************************************************************************)
\* As Rotate_shortid_nonce_if_needed, but the ttl is only decremented.
Rotate_shortid_nonce_if_needed_NoReset(new_nonce) ==
    [ttl |-> shortid_nonce_ttl - 1, nonce |-> shortid_nonce, peers |-> peers]

\* As Rotate_shortid_nonce_if_needed, but the peers keep their lists.
Rotate_shortid_nonce_if_needed_KeepLists(new_nonce) ==
    LET ttl == shortid_nonce_ttl - 1
    IN  IF ttl = 0
        THEN [ttl |-> SHORTID_NONCE_TTL,
              nonce |-> new_nonce,
              peers |-> [p \in DOMAIN peers |-> [peers[p] EXCEPT !.shortid_nonce = new_nonce]]]
        ELSE [ttl |-> ttl, nonce |-> shortid_nonce, peers |-> peers]

\* rotate_shortid_nonce_if_needed: the ttl, nonce and peer table after it.
\* new_nonce is the value thread_rng() yields if the nonce is rotated.
Rotate_shortid_nonce_if_needed(new_nonce) ==
    LET ttl == shortid_nonce_ttl - 1
    IN  IF ttl = 0
        THEN [ttl |-> SHORTID_NONCE_TTL,
              nonce |-> new_nonce,
              peers |-> [p \in DOMAIN peers |->
                            [peers[p] EXCEPT !.shortid_nonce = new_nonce,
                                             !.shortid_list = <<>>]]]
        ELSE [ttl |-> ttl, nonce |-> shortid_nonce, peers |-> peers]

\* The loop of mempool_inventory_for_peer over the given mempool entries.
Inventory_list(entries, pid, nonce) ==
    [i \in 1..Len(entries) |-> Shorten(nonce, pid, entries[i])]

Mempool_inventory_for_peer(pid, nonce) == Inventory_list(mempool.entries, pid, nonce)

RECURSIVE MapSeq(_, _)
MapSeq(F(_), s) == IF s = <<>> THEN <<>> ELSE <<F(Head(s))>> \o MapSeq(F, Tail(s))

\* The Inventory messages of a tick, to the peers that asked, in iteration order.
\* As Publish_inventory, but every peer is sent the inventory.
Publish_inventory_Unfiltered(prs, order) ==
    MapSeq(LAMBDA pid :
               Send(pid, InventoryMsg(CURRENT_VERSION, storage.tip.header, storage.tip.signature,
                                      prs[pid].their_short_id_nonce,
                                      Mempool_inventory_for_peer(pid, prs[pid].their_short_id_nonce))),
           order)

\* The first loop of synchronize: our inventory, for the peers that asked.
Publish_inventory(prs, order) ==
    MapSeq(LAMBDA pid :
               Send(pid, InventoryMsg(CURRENT_VERSION,
                                      storage.tip.header,
                                      storage.tip.signature,
                                      prs[pid].their_short_id_nonce,
                                      Mempool_inventory_for_peer(pid, prs[pid].their_short_id_nonce))),
           SelectSeq(order, LAMBDA pid : prs[pid].needs_our_inventory))

\* As Synchronize_chain, but the block asked for is the one at the tip.
Synchronize_chain_SameHeight(choice) ==
    MapSeq(LAMBDA pid : Send(pid, GetBlockMsg(Tip_height(storage))), choice)

\* As Synchronize_chain, but every peer is asked for the block.
Synchronize_chain_Broadcast(choice) ==
    MapSeq(LAMBDA pid : Send(pid, GetBlockMsg(Tip_height(storage) + 1)),
           CHOOSE order \in SetToSeqs(DOMAIN peers) : TRUE)

\* As Synchronize_chain, but the request goes to one peer, in the table or not.
Synchronize_chain_FixedPeer(choice) ==
    <<Send("p1", GetBlockMsg(Tip_height(storage) + 1))>>

\* synchronize_chain: GetBlock for the next height to the peer chosen at random.
Synchronize_chain(choice) ==
    MapSeq(LAMBDA pid : Send(pid, GetBlockMsg(Tip_height(storage) + 1)), choice)

ROUND_ROBIN_CAP == 1000000

RECURSIVE Round_robin_PeerFirst(_, _, _, _, _, _, _)
\* As Round_robin, but the walk is over peers (outer) and offsets (inner):
\* a peer claims all it can before the next peer is looked at.
Round_robin_PeerFirst(prs, order, offset, i, assigned, requests, done) ==
    IF i > Len(order) THEN requests
    ELSE LET pid == order[i]
             id == At_position(offset, prs[pid].shortid_list)
         IN  IF id = <<>>
             THEN Round_robin_PeerFirst(prs, order, 0, i + 1, assigned, requests, done)
             ELSE IF id[1] \in assigned
             THEN Round_robin_PeerFirst(prs, order, offset + 1, i, assigned, requests, FALSE)
             ELSE Round_robin_PeerFirst(prs, order, offset + 1, i, assigned \cup {id[1]},
                                        [requests EXCEPT ![pid] = Append(@, id[1])], FALSE)

RECURSIVE Round_robin(_, _, _, _, _, _, _)
\* The walk of synchronize_mempool over offsets (outer) and peers (inner):
\* the short ids claimed for each peer, in claim order.
Round_robin(prs, order, offset, i, assigned, requests, done) ==
    IF offset >= ROUND_ROBIN_CAP THEN requests
    ELSE IF i > Len(order)
    THEN IF done THEN requests
         ELSE Round_robin(prs, order, offset + 1, 1, assigned, requests, TRUE)
    ELSE LET pid == order[i]
             id == At_position(offset, prs[pid].shortid_list)
         IN  IF id = <<>>
             THEN Round_robin(prs, order, offset, i + 1, assigned, requests, done)
             ELSE IF id[1] \in assigned
             THEN Round_robin(prs, order, offset, i + 1, assigned, requests, FALSE)
             ELSE Round_robin(prs, order, offset, i + 1, assigned \cup {id[1]},
                              [requests EXCEPT ![pid] = Append(@, id[1])], FALSE)

\* As Synchronize_mempool, but the set of assigned ids starts empty.
Synchronize_mempool_NoSeed(prs, nonce, order, reqorder) ==
    LET requests == Round_robin(prs, order, 0, 1, {}, [p \in DOMAIN prs |-> <<>>], TRUE)
    IN  MapSeq(LAMBDA pid : Send(pid, GetMempoolTxsMsg(nonce, requests[pid])),
               SelectSeq(reqorder, LAMBDA pid : requests[pid] # <<>>))

\* As Synchronize_mempool, but each peer is asked for all it advertises that
\* the mempool does not hold.
Synchronize_mempool_NoDedup(prs, nonce, order, reqorder) ==
    LET assigned == {Shorten(nonce, SelfId, mempool.entries[i]) : i \in 1..Len(mempool.entries)}
        requests == [p \in DOMAIN prs |->
                        SelectSeq(prs[p].shortid_list, LAMBDA id : id \notin assigned)]
    IN  MapSeq(LAMBDA pid : Send(pid, GetMempoolTxsMsg(nonce, requests[pid])),
               SelectSeq(reqorder, LAMBDA pid : requests[pid] # <<>>))

\* synchronize_mempool: one GetMempoolTxs per peer that has claimed ids.
Synchronize_mempool(prs, nonce, order, reqorder) ==
    LET assigned == {Shorten(nonce, SelfId, mempool.entries[i]) : i \in 1..Len(mempool.entries)}
        requests == Round_robin(prs, order, 0, 1, assigned, [p \in DOMAIN prs |-> <<>>], TRUE)
    IN  MapSeq(LAMBDA pid : Send(pid, GetMempoolTxsMsg(nonce, requests[pid])),
               SelectSeq(reqorder, LAMBDA pid : requests[pid] # <<>>))

\* The peers that have not sent an inventory for over a minute are asked again.
Refresh_inventory(prs, nonce, order) ==
    MapSeq(LAMBDA pid : Request_inventory(pid, nonce),
           SelectSeq(order, LAMBDA pid : now - prs[pid].last_inventory_received > INTERVAL_SECS))

\* As Synchronize, but the mempool is reconciled with the peer table and the
\* nonce of before the rotation.
Synchronize_StaleLists(order, reqorder, choice, new_nonce) ==
    LET r == Rotate_shortid_nonce_if_needed(new_nonce)
    IN  /\ shortid_nonce_ttl' = r.ttl
        /\ shortid_nonce' = r.nonce
        /\ peers' = [p \in DOMAIN peers |-> [r.peers[p] EXCEPT !.needs_our_inventory = FALSE]]
        /\ sent' = Publish_inventory(r.peers, order)
                   \o (IF Id(target_tip) # Tip_id(storage)
                       THEN Synchronize_chain(choice)
                       ELSE Synchronize_mempool(peers, shortid_nonce, order, reqorder))
                   \o Refresh_inventory(r.peers, r.nonce, order)
        /\ result' = Returned("synchronize", Ok)
        /\ UNCHANGED <<storage, target_tip, mempool, now>>

\* order: the iteration order of the peer table; reqorder: that of the
\* request table; choice: the peer picked at random, if there is any;
\* new_nonce: the random nonce.
\* As Synchronize, but the inventory requests carry the nonce of before the
\* rotation.
Synchronize_RefreshWithOldNonce(order, reqorder, choice, new_nonce) ==
    LET r == Rotate_shortid_nonce_if_needed(new_nonce)
    IN  /\ shortid_nonce_ttl' = r.ttl
        /\ shortid_nonce' = r.nonce
        /\ peers' = [p \in DOMAIN peers |-> [r.peers[p] EXCEPT !.needs_our_inventory = FALSE]]
        /\ sent' = Publish_inventory(r.peers, order)
                   \o (IF Id(target_tip) # Tip_id(storage)
                       THEN Synchronize_chain(choice)
                       ELSE Synchronize_mempool(r.peers, r.nonce, order, reqorder))
                   \o Refresh_inventory(r.peers, shortid_nonce, order)
        /\ result' = Returned("synchronize", Ok)
        /\ UNCHANGED <<storage, target_tip, mempool, now>>

Synchronize(order, reqorder, choice, new_nonce) ==
    LET r == Rotate_shortid_nonce_if_needed(new_nonce)
    IN  /\ shortid_nonce_ttl' = r.ttl
        /\ shortid_nonce' = r.nonce
        /\ peers' = [p \in DOMAIN peers |-> [r.peers[p] EXCEPT !.needs_our_inventory = FALSE]]
        /\ sent' = Publish_inventory(r.peers, order)
                   \o (IF Id(target_tip) # Tip_id(storage)
                       THEN Synchronize_chain(choice)
                       ELSE Synchronize_mempool(r.peers, r.nonce, order, reqorder))
                   \o Refresh_inventory(r.peers, r.nonce, order)
        /\ result' = Returned("synchronize", Ok)
        /\ UNCHANGED <<storage, target_tip, mempool, now>>

(***************************************************************************)
(* Node::create_block                                                      *)
(***************************************************************************)
\* As Create_block, but the block is signed and not stored.
Create_block_NoStore(timestamp_ms, signing_key) ==
    LET ts == Max(timestamp_ms, storage.tip.header.timestamp_ms)
        mp == Mempool_update_timestamp(mempool, ts)
    IN  /\ mempool' = mp
        /\ sent' = <<>>
        /\ result' = Returned("create_block", Ok)
        /\ UNCHANGED <<storage, target_tip, peers, shortid_nonce, shortid_nonce_ttl, now>>

\* As Create_block, but the block's transactions are read from the mempool
\* after update_state.
Create_block_EntriesAfterUpdate(timestamp_ms, signing_key) ==
    LET ts == Max(timestamp_ms, storage.tip.header.timestamp_ms)
        mp == Mempool_update_timestamp(mempool, ts)
        new_state == Mempool_make_block(mp)
        signature == Create_block_signature(new_state.tip, signing_key)
        updated == Mempool_update_state(mp, new_state)
        block == BlockMsg(new_state.tip, signature, updated.entries)
    IN  /\ mempool' = updated
        /\ storage' = Store_block(storage, block, new_state)
        /\ sent' = <<>>
        /\ result' = Returned("create_block", Ok)
        /\ UNCHANGED <<target_tip, peers, shortid_nonce, shortid_nonce_ttl, now>>

\* As Create_block, but the timestamp is handed to the mempool as it came.
Create_block_NoClamp(timestamp_ms, signing_key) ==
    LET mp == [mempool EXCEPT !.timestamp_ms = timestamp_ms]
        new_state == Mempool_make_block(mp)
        signature == Create_block_signature(new_state.tip, signing_key)
        block == BlockMsg(new_state.tip, signature, mp.entries)
    IN  /\ mempool' = Mempool_update_state(mp, new_state)
        /\ storage' = Store_block(storage, block, new_state)
        /\ sent' = <<>>
        /\ result' = Returned("create_block", Ok)
        /\ UNCHANGED <<target_tip, peers, shortid_nonce, shortid_nonce_ttl, now>>

Create_block(timestamp_ms, signing_key) ==
    LET ts == Max(timestamp_ms, storage.tip.header.timestamp_ms)
        mp == Mempool_update_timestamp(mempool, ts)
        new_state == Mempool_make_block(mp)
        signature == Create_block_signature(new_state.tip, signing_key)
        block == BlockMsg(new_state.tip, signature, mp.entries)
    IN  /\ mempool' = Mempool_update_state(mp, new_state)
        /\ storage' = Store_block(storage, block, new_state)
        /\ sent' = <<>>
        /\ result' = Returned("create_block", Ok)
        /\ UNCHANGED <<target_tip, peers, shortid_nonce, shortid_nonce_ttl, now>>

(***************************************************************************)
(* The clock                                                               *)
(***************************************************************************)
\* Time passes between two operations; the messages and the result of the
\* last operation are no longer the latest event.
Advance_clock(secs) ==
    /\ now' = now + secs
    /\ sent' = <<>>
    /\ result' = Returned("clock", Ok)
    /\ UNCHANGED node

(***************************************************************************)
(* The environment: the chain signed by the network's authority, and what  *)
(* peers (honest or not) may send.                                         *)
(***************************************************************************)
HonestTxs(height) == IF height = 1 THEN <<"t1">> ELSE <<>>

RECURSIVE HonestHeader(_)
HonestHeader(height) ==
    IF height = 0 THEN Genesis
    ELSE [height |-> height,
          prev |-> Id(HonestHeader(height - 1)),
          timestamp_ms |-> 1,
          txroot |-> HonestTxs(height)]

HonestSignature(height) ==
    IF height = 0 THEN GenesisSignature ELSE Sign(Id(HonestHeader(height)), NetworkKey)

HonestBlock(height) ==
    BlockMsg(HonestHeader(height), HonestSignature(height), HonestTxs(height))

\* Headers the authority has signed.
SignedHeaders == {HonestHeader(h) : h \in 1..MaxHeight}

\* A header of the same height that the authority never signed.
ForgedHeader(height) == [HonestHeader(height) EXCEPT !.txroot = <<"t2">>]

\* The signatures a peer may attach to a header: the authority's, if the
\* authority signed that header, and its signature of the header it did sign
\* at that height, if not; and one made with another key.
SignaturesFor(header) ==
    {Sign(Id(header), "mallory"),
     Sign(Id(HonestHeader(header.height)), IF header.height = 0 THEN "genesis" ELSE NetworkKey)}

\* The blocks peers send: the authority's blocks, the same with a signature
\* that does not verify, and the same with a body that is not the header's.
BlockInputs(heights) ==
    UNION {{HonestBlock(h),
            [HonestBlock(h) EXCEPT !.signature = Sign(Id(HonestHeader(h)), "mallory")],
            [HonestBlock(h) EXCEPT !.signature = HonestSignature((h % MaxHeight) + 1)],
            [HonestBlock(h) EXCEPT !.txs = <<"bad">>],
            BlockMsg([HonestHeader(h) EXCEPT !.txroot = <<"bad">>],
                     Sign(Id([HonestHeader(h) EXCEPT !.txroot = <<"bad">>]), NetworkKey),
                     <<"bad">>)}
           : h \in heights}

Versions == {CURRENT_VERSION, CURRENT_VERSION + 1}

GetInventoryInputs(nonces) == {GetInventoryMsg(v, n) : v \in Versions, n \in nonces}

\* The inventories peers send: of the current version with every tip and
\* signature above, and of another version with the authority's tips.
InventoryInputs(nonces, lists) ==
    UNION {{InventoryMsg(CURRENT_VERSION, tip, sig, n, l)
            : sig \in SignaturesFor(tip), n \in nonces, l \in lists}
           : tip \in {HonestHeader(h) : h \in 0..MaxHeight} \cup {ForgedHeader(h) : h \in 1..MaxHeight}}
    \cup {InventoryMsg(CURRENT_VERSION + 1, HonestHeader(h), HonestSignature(h), n, l)
          : h \in 1..MaxHeight, n \in nonces, l \in lists}

GetBlockInputs(heights) == {GetBlockMsg(h) : h \in heights}

GetMempoolTxsInputs(nonces, lists) == {GetMempoolTxsMsg(n, l) : n \in nonces, l \in lists}

MempoolTxsInputs(txlists) ==
    {MempoolTxsMsg(t, txs) : t \in {Tip_id(storage), Id(HonestHeader(MaxHeight))}, txs \in txlists}

(***************************************************************************)
(* The tick, with the choices the code leaves to the HashMap's iteration   *)
(* order and to thread_rng().                                              *)
(***************************************************************************)
Tick ==
    \E order \in SetToSeqs(DOMAIN peers), reqorder \in SetToSeqs(DOMAIN peers),
       choice \in {<<p>> : p \in DOMAIN peers} \cup {<<>>}, new_nonce \in Nonces :
        /\ (choice = <<>>) = (DOMAIN peers = {})
        /\ Synchronize(order, reqorder, choice, new_nonce)

(***************************************************************************)
(* Spec: the chain.  One peer, which connects, disconnects and sends       *)
(* blocks and tips of every kind; the first MaxTicks ticks of the node;    *)
(* blocks are created up to height MaxHeight.                              *)
(***************************************************************************)
ChainPeers == {"p1"}

ChainGetInventoryInputs == GetInventoryInputs({0})

ChainInventoryInputs == InventoryInputs({0}, {<<>>})

ChainGetBlockInputs == GetBlockInputs(0..(MaxHeight + 1))

ChainBlockInputs == BlockInputs(1..MaxHeight)

ChainGetMempoolTxsInputs == GetMempoolTxsInputs({0}, {<<0>>})

ChainTimestamps == {0, 2}

NextMessages ==
    \/ \E pid \in ChainPeers : Peer_connected(pid)
    \/ \E pid \in ChainPeers : Peer_diconnected(pid)
    \/ \E pid \in ChainPeers, m \in ChainGetInventoryInputs : Process_inventory_request(pid, m)
    \/ \E pid \in ChainPeers, m \in ChainInventoryInputs : Receive_inventory(pid, m)
    \/ \E pid \in ChainPeers, m \in ChainGetBlockInputs : Send_block(pid, m)
    \/ \E m \in ChainBlockInputs : Receive_block(m)
    \/ \E pid \in ChainPeers, m \in ChainGetMempoolTxsInputs : Send_txs(pid, m)
    \/ \E m \in MempoolTxsInputs({<<"t1">>}) : Receive_txs(m)
    \/ shortid_nonce_ttl > SHORTID_NONCE_TTL - MaxTicks /\ Tick

Next ==
    \/ NextMessages
    \/ Tip_height(storage) < MaxHeight /\ \E ts \in ChainTimestamps : Create_block(ts, NetworkKey)

Spec == Init /\ [][Next]_vars

\* The node of a network whose blocks are created elsewhere: every
\* operation but create_block.
SpecMessages == Init /\ [][NextMessages]_vars

(***************************************************************************)
(* SpecPeers: the peer table and the nonce.  One peer, which connects,     *)
(* disconnects, asks for the inventory and sends inventories of both       *)
(* versions with every nonce; the node ticks for ever, so that the ttl     *)
(* runs down and the nonce is rotated.  No block is stored.                *)
(***************************************************************************)
PeersPeers == {"p1"}

PeersGetInventoryInputs == GetInventoryInputs(Nonces)

PeersInventoryInputs ==
    {InventoryMsg(v, HonestHeader(1), sig, n, l)
     : v \in Versions, sig \in SignaturesFor(HonestHeader(1)), n \in Nonces,
       l \in {<<>>, <<1>>}}
    \cup {InventoryMsg(CURRENT_VERSION, Genesis, GenesisSignature, 0, <<2>>)}

NextPeers ==
    \/ \E pid \in PeersPeers : Peer_connected(pid)
    \/ \E pid \in PeersPeers : Peer_diconnected(pid)
    \/ \E pid \in PeersPeers, m \in PeersGetInventoryInputs : Process_inventory_request(pid, m)
    \/ \E pid \in PeersPeers, m \in PeersInventoryInputs : Receive_inventory(pid, m)
    \/ Tick

SpecPeers == Init /\ [][NextPeers]_vars

(***************************************************************************)
(* SpecClock: the inventory refresh.  One peer, which connects,            *)
(* disconnects, asks for the inventory and sends inventories; the clock    *)
(* advances by a minute or by a minute and a second, up to MaxTime; the    *)
(* node makes its first MaxTicks ticks.                                    *)
(***************************************************************************)
ClockPeers == {"p1"}

ClockSteps == {INTERVAL_SECS, INTERVAL_SECS + 1}

ClockGetInventoryInputs == GetInventoryInputs({1})

ClockInventoryInputs ==
    {InventoryMsg(CURRENT_VERSION, HonestHeader(h), HonestSignature(h), n, l)
     : h \in {0, 1}, n \in Nonces, l \in {<<>>, <<1>>}}

NextClock ==
    \/ \E pid \in ClockPeers : Peer_connected(pid)
    \/ \E pid \in ClockPeers : Peer_diconnected(pid)
    \/ \E pid \in ClockPeers, m \in ClockGetInventoryInputs : Process_inventory_request(pid, m)
    \/ \E pid \in ClockPeers, m \in ClockInventoryInputs : Receive_inventory(pid, m)
    \/ shortid_nonce_ttl > SHORTID_NONCE_TTL - MaxTicks /\ Tick
    \/ \E secs \in ClockSteps : now + secs <= MaxTime /\ Advance_clock(secs)

SpecClock == Init /\ [][NextClock]_vars

(***************************************************************************)
(* SpecPublish: what a tick sends.  Two peers, which connect, disconnect,  *)
(* ask for the inventory and advertise the first block of the authority;   *)
(* that block and a transaction reach the node; the node makes its first   *)
(* MaxTicks ticks.                                                         *)
(***************************************************************************)
PublishPeers == {"p1", "p2"}

PublishGetInventoryInputs == GetInventoryInputs({1})

PublishInventoryInputs ==
    {InventoryMsg(CURRENT_VERSION, HonestHeader(1), HonestSignature(1), 0, l)
     : l \in {<<>>, <<2>>}}

PublishBlockInputs == {HonestBlock(1)}

NextPublish ==
    \/ \E pid \in PublishPeers : Peer_connected(pid)
    \/ \E pid \in PublishPeers : Peer_diconnected(pid)
    \/ \E pid \in PublishPeers, m \in PublishGetInventoryInputs : Process_inventory_request(pid, m)
    \/ \E pid \in PublishPeers, m \in PublishInventoryInputs : Receive_inventory(pid, m)
    \/ \E m \in PublishBlockInputs : Receive_block(m)
    \/ Receive_txs(MempoolTxsMsg(Tip_id(storage), <<"t2">>))
    \/ shortid_nonce_ttl > SHORTID_NONCE_TTL - MaxTicks /\ Tick

SpecPublish == Init /\ [][NextPublish]_vars

(***************************************************************************)
(* SpecMempool: the reconciliation of the mempool.  Two peers, which       *)
(* connect, advertise lists of short ids (with an id repeated in a list    *)
(* and shared by two lists) at the node's own tip, and ask for             *)
(* transactions; transactions reach the node's mempool; the node makes its *)
(* first MaxTicks ticks.                                                   *)
(***************************************************************************)
MempoolPeers == {"p1", "p2"}

MempoolInventoryInputs ==
    {InventoryMsg(CURRENT_VERSION, Genesis, GenesisSignature, 0, l)
     : l \in {<<1, 1, 2>>, <<0, 1>>}}

MempoolGetMempoolTxsInputs == GetMempoolTxsInputs(Nonces, {<<0>>, <<1, 2>>, <<2, 2>>})

MempoolTxLists == {<<"t1">>, <<"t2">>, <<"t4">>}

NextMempool ==
    \/ \E pid \in MempoolPeers : Peer_connected(pid)
    \/ \E pid \in MempoolPeers, m \in MempoolInventoryInputs : Receive_inventory(pid, m)
    \/ \E pid \in MempoolPeers, m \in MempoolGetMempoolTxsInputs : Send_txs(pid, m)
    \/ \E txs \in MempoolTxLists : Receive_txs(MempoolTxsMsg(Tip_id(storage), txs))
    \/ shortid_nonce_ttl > SHORTID_NONCE_TTL - MaxTicks /\ Tick

SpecMempool == Init /\ [][NextMempool]_vars

(***************************************************************************)
(* SpecExchange: one exchange between this node, A, and a peer B that runs *)
(* the same code.  B is p1 or p2, has the tip A has, and holds three       *)
(* transactions (two of p2's have the same short id); A knows no other     *)
(* peer.  B answers the message A has just sent: a GetInventory with the   *)
(* Inventory its next tick publishes, a GetMempoolTxs with the MempoolTxs  *)
(* of its send_txs.  A ticks for ever.                                     *)
(***************************************************************************)
ExchangePeers == {"p1", "p2"}

\* The entries of B's mempool.
PeerEntries(pid) ==
    IF pid = "p1" THEN <<"t1", "t2", "t4">> ELSE <<"t3", "t2", "t4">>

\* B's process_inventory_request of A's request, then B's tick: the Inventory
\* built for the peer B knows as SelfId, under the nonce A asked for.
Peer_inventory(pid, request) ==
    InventoryMsg(CURRENT_VERSION, InitialStorage.tip.header, InitialStorage.tip.signature,
                 request.shortid_nonce,
                 Inventory_list(PeerEntries(pid), SelfId, request.shortid_nonce))

\* B's send_txs of A's request.
Peer_txs(pid, request) ==
    MempoolTxsMsg(Tip_id(InitialStorage), Served_txs(pid, PeerEntries(pid), SelfId, request))

NextExchange ==
    \/ \E pid \in ExchangePeers : DOMAIN peers = {} /\ Peer_connected(pid)
    \/ \E i \in DOMAIN sent :
          /\ sent[i].msg.kind = "GetInventory"
          /\ Receive_inventory(sent[i].to, Peer_inventory(sent[i].to, sent[i].msg))
    \/ \E i \in DOMAIN sent :
          /\ sent[i].msg.kind = "GetMempoolTxs"
          /\ Receive_txs(Peer_txs(sent[i].to, sent[i].msg))
    \/ Tick

SpecExchange == Init /\ [][NextExchange]_vars

(***************************************************************************)
(* SpecTxs: replies with transactions.  The blocks of the authority reach  *)
(* the node, and so do MempoolTxs made at every tip of the authority's     *)
(* chain, with transactions that are new, repeated, in conflict with one   *)
(* another, or invalid.                                                    *)
(***************************************************************************)
TxsBlockInputs == {HonestBlock(h) : h \in 1..MaxHeight}

TxsTxLists ==
    {<<"t2">>, <<"t1", "t3", "t2">>, <<"t2", "t2", "t4">>, <<"t4", "bad", "t2">>, <<"bad">>}

TxsMempoolTxsInputs ==
    {MempoolTxsMsg(Id(HonestHeader(h)), txs) : h \in 0..MaxHeight, txs \in TxsTxLists}

NextTxs ==
    \/ \E m \in TxsBlockInputs : Receive_block(m)
    \/ \E m \in TxsMempoolTxsInputs : Receive_txs(m)

SpecTxs == Init /\ [][NextTxs]_vars

(***************************************************************************)
(* SpecRotate: the rotation of the nonce.  Two peers, which connect and    *)
(* advertise lists of short ids at the node's own tip or at the first      *)
(* block of the authority; the node ticks for ever, so that the ttl runs   *)
(* out with lists in the peer table.                                       *)
(***************************************************************************)
RotatePeers == {"p1", "p2"}

RotateInventoryInputs ==
    {InventoryMsg(CURRENT_VERSION, Genesis, GenesisSignature, n, <<1, 2>>) : n \in Nonces}
    \cup {InventoryMsg(CURRENT_VERSION, HonestHeader(1), HonestSignature(1), 0, <<1, 2>>)}

NextRotate ==
    \/ \E pid \in RotatePeers : pid \notin DOMAIN peers /\ Peer_connected(pid)
    \/ \E pid \in RotatePeers, m \in RotateInventoryInputs : Receive_inventory(pid, m)
    \/ Tick

SpecRotate == Init /\ [][NextRotate]_vars

(***************************************************************************)
(* SpecHost: the host's entry point.  One peer, which connects and         *)
(* disconnects; every message is handed to process_message, and what the   *)
(* host gets back is the result of the handler; the node makes its first   *)
(* MaxTicks ticks.                                                         *)
(***************************************************************************)
HostPeers == {"p1"}

HostMessages ==
    {GetInventoryMsg(CURRENT_VERSION, 0),
     InventoryMsg(CURRENT_VERSION, HonestHeader(1), HonestSignature(1), 0, <<1>>),
     GetBlockMsg(1),
     HonestBlock(1),
     HonestBlock(2),
     GetMempoolTxsMsg(0, <<0, 1, 2>>),
     MempoolTxsMsg(Id(HonestHeader(0)), <<"t2">>),
     MempoolTxsMsg(Id(HonestHeader(1)), <<"t2">>)}

NextHost ==
    \/ \E pid \in HostPeers : Peer_connected(pid)
    \/ \E pid \in HostPeers : Peer_diconnected(pid)
    \/ \E pid \in HostPeers, m \in HostMessages : Process_message(pid, m)
    \/ shortid_nonce_ttl > SHORTID_NONCE_TTL - MaxTicks /\ Tick

SpecHost == Init /\ [][NextHost]_vars

(***************************************************************************)
(* SpecNonce: the nonce of the requests of a tick.  One peer, which        *)
(* connects and advertises a list of short ids at the node's tip; the      *)
(* clock advances by more than a minute at a time, up to MaxTime, so that  *)
(* inventories are asked for again; the node ticks for ever, so that the   *)
(* nonce is rotated.                                                       *)
(***************************************************************************)
NoncePeers == {"p1"}

NonceInventoryInputs ==
    {InventoryMsg(CURRENT_VERSION, Genesis, GenesisSignature, n, l) : n \in Nonces, l \in {<<1>>}}

NextNonce ==
    \/ \E pid \in NoncePeers : pid \notin DOMAIN peers /\ Peer_connected(pid)
    \/ \E pid \in NoncePeers, m \in NonceInventoryInputs :
          pid \in DOMAIN peers /\ Receive_inventory(pid, m)
    \/ Tick
    \/ now + INTERVAL_SECS + 1 <= MaxTime /\ Advance_clock(INTERVAL_SECS + 1)

SpecNonce == Init /\ [][NextNonce]_vars

(***************************************************************************)
(* SpecSync: a fresh node, A, and an honest peer B whose chain has         *)
(* SyncHeight blocks of the authority.  B connects once, answers A's       *)
(* GetInventory with its tip, and answers the GetBlock A has just sent     *)
(* with the block its send_block finds.  A ticks for ever.  Ticks and      *)
(* deliveries are fair.                                                    *)
(***************************************************************************)
\* B's storage.
SyncPeerStorage ==
    [tip |-> [header |-> HonestHeader(SyncHeight), signature |-> HonestSignature(SyncHeight)],
     blocks |-> [h \in 1..SyncHeight |-> HonestBlock(h)],
     state |-> [tip |-> HonestHeader(SyncHeight), utxos |-> InitialUtxos \ {"u1"}]]

\* The Inventory B's tick publishes for a peer that asked with this nonce.
Sync_inventory(nonce) ==
    InventoryMsg(CURRENT_VERSION, SyncPeerStorage.tip.header, SyncPeerStorage.tip.signature,
                 nonce, <<>>)

\* B's send_block: the block, as a sequence of at most one element.
Sync_block(request) == Block_at_height(SyncPeerStorage, request.height)

SyncConnect == DOMAIN peers = {} /\ Peer_connected("p1")

\* B's answer to the GetInventory A sent when B connected.
SyncInventory ==
    /\ "p1" \in DOMAIN peers
    /\ peers["p1"].tip = <<>>
    /\ Receive_inventory("p1", Sync_inventory(peers["p1"].shortid_nonce))

\* B's answer to the GetBlock A has just sent.
SyncBlock ==
    \E i \in DOMAIN sent :
        /\ sent[i].msg.kind = "GetBlock"
        /\ Sync_block(sent[i].msg) # <<>>
        /\ Receive_block(Sync_block(sent[i].msg)[1])

NextSync ==
    \/ SyncConnect
    \/ SyncInventory
    \/ SyncBlock
    \/ Tick

SpecSync ==
    /\ Init /\ [][NextSync]_vars
    /\ WF_vars(SyncConnect) /\ WF_vars(SyncInventory) /\ WF_vars(SyncBlock) /\ WF_vars(Tick)

(***************************************************************************)
(* Properties                                                              *)
(***************************************************************************)
\* C1: in every state reached by connects, disconnects, messages and ticks
\* (no create_block), the height of the storage tip is at most the height
\* of target_tip.  Stated as the claim states it; checked under SpecMessages.
C1_TipNeverAboveTarget == Tip_height(storage) <= target_tip.height

\* C2: right after create_block the height of the storage tip is at most
\* the height of target_tip.
C2_TipWithinTargetAfterCreateBlock ==
    result.op = "create_block" => Tip_height(storage) <= target_tip.height

\* C3: target_tip never regresses: its height never decreases, and it
\* changes only in a successful receive_inventory whose advertised tip is
\* strictly higher than the target, and then to that tip.
C3_TargetTipOnlyAdvances ==
    [][/\ target_tip'.height >= target_tip.height
       /\ target_tip' # target_tip =>
            /\ result' = Returned("receive_inventory", Ok)
            /\ target_tip'.height > target_tip.height
            /\ \E pid \in ChainPeers, m \in ChainInventoryInputs :
                  /\ Receive_inventory(pid, m)
                  /\ m.tip = target_tip'
                  /\ m.tip.height > target_tip.height]_vars

\* The target has advanced to the highest advertised tip.
C3_Witness ==
    /\ result = Returned("receive_inventory", Ok)
    /\ target_tip = HonestHeader(MaxHeight)

\* C4: target_tip is the tip read from storage at construction or a header
\* the authority signed; a header without a valid signature never becomes
\* the target.
C4_TargetTipAuthenticated ==
    target_tip = InitialStorage.state.tip \/ target_tip \in SignedHeaders

\* The target was adopted from an inventory, and an inventory with a tip
\* above it has just been refused for its signature.
C4_Witness ==
    /\ target_tip \in SignedHeaders
    /\ result = Returned("receive_inventory", <<"InvalidBlockSignature">>)

\* C5: shortid_nonce_ttl starts at 50 and is in 1..50 after every operation:
\* a tick decrements it by one, or sets it back to 50 when the decrement
\* reaches 0, and no other operation changes it.
C5_TtlWithinBounds ==
    /\ shortid_nonce_ttl = SHORTID_NONCE_TTL
    /\ [][/\ shortid_nonce_ttl' \in 1..SHORTID_NONCE_TTL
          /\ shortid_nonce_ttl' =
                IF result'.op # "synchronize" THEN shortid_nonce_ttl
                ELSE IF shortid_nonce_ttl - 1 = 0 THEN SHORTID_NONCE_TTL
                ELSE shortid_nonce_ttl - 1]_vars

\* The fiftieth tick has set the ttl back to 50.
C5_Witness ==
    /\ result = Returned("synchronize", Ok)
    /\ shortid_nonce_ttl = SHORTID_NONCE_TTL

\* C6: the mempool is sealed by the storage tip, and the storage tip is the
\* header of the last block stored (the genesis when none was).
C6_MempoolSealedByStorageTip ==
    /\ Id(mempool.state.tip) = Tip_id(storage)
    /\ Id(storage.state.tip) = Tip_id(storage)
    /\ Len(storage.blocks) = Tip_height(storage)
    /\ storage.blocks # <<>> =>
          Id(storage.blocks[Len(storage.blocks)].header) = Tip_id(storage)

\* A block received from a peer has been applied on top of an earlier one.
C6_Witness ==
    /\ result = Returned("receive_block", Ok)
    /\ Tip_height(storage) = MaxHeight

\* C7: a Block whose height is not the storage tip's height plus one, valid
\* signature or not, returns BlockNotRelevant and changes nothing of
\* storage, mempool, target_tip and the peer table; and the height of the
\* storage tip grows by exactly one whenever it changes.
C7_IrrelevantBlockDropped ==
    [][/\ result'.op = "receive_block" => \A m \in ChainBlockInputs :
            (Receive_block(m) /\ m.header.height # Tip_height(storage) + 1) =>
                /\ result' = Returned("receive_block", <<"BlockNotRelevant", m.header.height>>)
                /\ UNCHANGED <<storage, mempool, target_tip, peers>>
       /\ storage' # storage => Tip_height(storage') = Tip_height(storage) + 1]_vars

\* A block two above the tip has just been dropped.
C7_Witness ==
    /\ result = Returned("receive_block", <<"BlockNotRelevant", 2>>)
    /\ Tip_height(storage) = 0

\* C8: a Block at the next height whose signature does not verify returns
\* InvalidBlockSignature, one that apply_block refuses returns that error,
\* and in both cases storage and mempool are unchanged; they change only
\* when both checks passed.
C8_RejectedBlockChangesNothing ==
    [][result'.op = "receive_block" => \A m \in ChainBlockInputs :
          (Receive_block(m) /\ m.header.height = Tip_height(storage) + 1) =>
              LET verified == Verify_block_signature(m.header, m.signature, NetworkKey)
                  applied == Apply_block(storage.state, m.header, m.txs)
              IN  /\ ~verified =>
                        /\ result' = Returned("receive_block", <<"InvalidBlockSignature">>)
                        /\ UNCHANGED <<storage, mempool>>
                  /\ (verified /\ applied.err # Ok) =>
                        /\ result' = Returned("receive_block", applied.err)
                        /\ UNCHANGED <<storage, mempool>>
                  /\ (storage' # storage \/ mempool' # mempool) =>
                        verified /\ applied.err = Ok]_vars

\* A block at the next height, signed by the authority, was refused by
\* apply_block, on a chain that already holds a block.
C8_Witness ==
    /\ result.op = "receive_block"
    /\ result.val \in {<<"InconsistentHeader">>, <<"TxValidation">>, <<"UtreexoError">>}
    /\ Tip_height(storage) > 0

\* C9: a GetInventory or an Inventory whose version is not CURRENT_VERSION
\* returns IncompatibleVersion, sends nothing and changes no field of the
\* node: the peer table (the sender's record included), target_tip, the
\* nonce and its ttl, storage and mempool.
C9_IncompatibleVersionChangesNothing ==
    [][/\ result'.op = "process_inventory_request" =>
            \A pid \in PeersPeers, m \in PeersGetInventoryInputs :
                (Process_inventory_request(pid, m) /\ m.version # CURRENT_VERSION) =>
                    /\ result' = Returned("process_inventory_request", <<"IncompatibleVersion">>)
                    /\ sent' = <<>>
                    /\ UNCHANGED node
       /\ result'.op = "receive_inventory" =>
            \A pid \in PeersPeers, m \in PeersInventoryInputs :
                (Receive_inventory(pid, m) /\ m.version # CURRENT_VERSION) =>
                    /\ result' = Returned("receive_inventory", <<"IncompatibleVersion">>)
                    /\ sent' = <<>>
                    /\ UNCHANGED node]_vars

\* An Inventory of another version, with a tip above the target, came from a
\* connected peer that has never sent a tip.
C9_Witness ==
    /\ result = Returned("receive_inventory", <<"IncompatibleVersion">>)
    /\ "p1" \in DOMAIN peers
    /\ peers["p1"].tip = <<>>
    /\ target_tip = Genesis

\* C11: an Inventory handled with success from a connected peer records on
\* that peer's PeerInfo the advertised tip, nonce and list, and the time of
\* receipt as last_inventory_received.
C11_InventoryRecorded ==
    [][result' = Returned("receive_inventory", Ok) =>
          \A pid \in ClockPeers, m \in ClockInventoryInputs :
              (Receive_inventory(pid, m) /\ pid \in DOMAIN peers) =>
                  /\ peers'[pid].tip = <<m.tip>>
                  /\ peers'[pid].shortid_nonce = m.shortid_nonce
                  /\ peers'[pid].shortid_list = m.shortid_list
                  /\ peers'[pid].last_inventory_received = now']_vars

\* C12: a tick sends GetInventory, with the node's nonce, to a connected peer
\* exactly when more than 60 seconds have passed since the last Inventory from
\* that peer, or since it connected.  Stated for the ticks where that time is
\* known from the state: a tick that follows at once the peer's connection or
\* an Inventory handled with success asks nothing of the peer; a peer that
\* has sent no Inventory since it connected is asked, once, exactly when it
\* connected more than 60 seconds ago; and no peer is asked within 60 seconds
\* of its connection.
C12_RefreshOnlyAfterSilence ==
    [][result'.op = "synchronize" => \A pid \in DOMAIN peers :
          LET asked == {i \in DOMAIN sent' : /\ sent'[i].to = pid
                                              /\ sent'[i].msg.kind = "GetInventory"}
          IN  /\ result \in {Returned("receive_inventory", Ok), Returned("peer_connected", Ok)}
                    => asked = {}
              /\ (/\ peers[pid].tip = <<>>
                  /\ now - peers[pid].last_inventory_received > INTERVAL_SECS) =>
                    /\ Cardinality(asked) = 1
                    /\ \A i \in asked : sent'[i].msg = GetInventoryMsg(CURRENT_VERSION, shortid_nonce')
              /\ now - peers[pid].last_inventory_received <= INTERVAL_SECS => asked = {}]_vars

\* C13: a GetInventory of the current version from a connected peer sends
\* nothing and sets that peer's needs_our_inventory and their_short_id_nonce,
\* leaving the other peers as they are; the flag stays set until the next
\* tick (or until the peer is gone or connects anew); the tick sends one
\* Inventory, and only one, to each peer whose flag is set, with the nonce
\* that peer asked for and the storage tip and its signature, and none to any
\* other peer; after the tick no flag is set.
C13_InventoryRequestServedOnce ==
    [][/\ result'.op = "process_inventory_request" =>
            \A pid \in PublishPeers, m \in PublishGetInventoryInputs :
                (/\ Process_inventory_request(pid, m)
                 /\ m.version = CURRENT_VERSION
                 /\ pid \in DOMAIN peers) =>
                    /\ sent' = <<>>
                    /\ result' = Returned("process_inventory_request", Ok)
                    /\ DOMAIN peers' = DOMAIN peers
                    /\ peers'[pid].needs_our_inventory
                    /\ peers'[pid].their_short_id_nonce = m.shortid_nonce
                    /\ \A q \in DOMAIN peers \ {pid} : peers'[q] = peers[q]
       /\ result'.op \notin {"synchronize", "peer_connected"} =>
            \A pid \in DOMAIN peers \cap DOMAIN peers' :
                peers[pid].needs_our_inventory => peers'[pid].needs_our_inventory
       /\ result'.op = "synchronize" =>
            /\ \A i \in DOMAIN sent' : sent'[i].to \in DOMAIN peers
            /\ DOMAIN peers' = DOMAIN peers
            /\ \A pid \in DOMAIN peers :
                  LET published == {i \in DOMAIN sent' : /\ sent'[i].to = pid
                                                          /\ sent'[i].msg.kind = "Inventory"}
                  IN  /\ ~peers'[pid].needs_our_inventory
                      /\ IF peers[pid].needs_our_inventory
                         THEN /\ Cardinality(published) = 1
                              /\ \A i \in published :
                                    /\ sent'[i].msg.version = CURRENT_VERSION
                                    /\ sent'[i].msg.shortid_nonce = peers[pid].their_short_id_nonce
                                    /\ sent'[i].msg.tip = storage.tip.header
                                    /\ sent'[i].msg.tip_signature = storage.tip.signature
                         ELSE published = {}]_vars

\* A tick has sent the inventory to p1, which asked for it with nonce 1, and
\* not to p2, which is connected too; a block and a transaction had arrived.
C13_Witness ==
    /\ result = Returned("synchronize", Ok)
    /\ DOMAIN peers = {"p1", "p2"}
    /\ Tip_height(storage) = 1
    /\ \E i \in DOMAIN sent :
          /\ sent[i].to = "p1"
          /\ sent[i].msg.kind = "Inventory"
          /\ sent[i].msg.shortid_nonce = 1
          /\ sent[i].msg.shortid_list # <<>>
    /\ \A i \in DOMAIN sent : sent[i].msg.kind = "Inventory" => sent[i].to = "p1"

\* C14: a tick with target_tip.id other than storage.tip.id sends one
\* GetBlock, for the height after the storage tip, to one connected peer
\* (none when no peer is connected) and no GetMempoolTxs; a tick with the two
\* ids equal sends no GetBlock.
C14_CatchUpExcludesMempool ==
    [][result'.op = "synchronize" =>
          LET blocks == {i \in DOMAIN sent' : sent'[i].msg.kind = "GetBlock"}
              txs == {i \in DOMAIN sent' : sent'[i].msg.kind = "GetMempoolTxs"}
          IN  IF Id(target_tip) # Tip_id(storage)
              THEN /\ txs = {}
                   /\ Cardinality(blocks) = (IF DOMAIN peers = {} THEN 0 ELSE 1)
                   /\ \A i \in blocks :
                         /\ sent'[i].to \in DOMAIN peers
                         /\ sent'[i].msg = GetBlockMsg(Tip_height(storage) + 1)
              ELSE blocks = {}]_vars

\* A tick of a node behind its target has asked one of two connected peers
\* for block 1, while a peer advertises a short id the node does not have.
C14_Witness ==
    /\ result = Returned("synchronize", Ok)
    /\ DOMAIN peers = {"p1", "p2"}
    /\ Id(target_tip) # Tip_id(storage)
    /\ \E pid \in DOMAIN peers : peers[pid].shortid_list # <<>>
    /\ \E i \in DOMAIN sent : sent[i].msg = GetBlockMsg(1)

\* C15: among the GetMempoolTxs of one tick no short id is asked for twice:
\* not from two peers, not twice from one peer; and no peer is sent two
\* requests.
C15_ShortIdRequestedOnce ==
    [][result'.op = "synchronize" =>
          LET requests == {i \in DOMAIN sent' : sent'[i].msg.kind = "GetMempoolTxs"}
          IN  /\ \A i \in requests :
                    LET list == sent'[i].msg.shortid_list
                    IN  \A a, b \in DOMAIN list : list[a] = list[b] => a = b
              /\ \A i, j \in requests :
                    i # j => /\ sent'[i].to # sent'[j].to
                             /\ Range(sent'[i].msg.shortid_list)
                                    \cap Range(sent'[j].msg.shortid_list) = {}]_vars

\* Two peers that advertise the same id, one of them twice, have each been
\* asked for transactions in one tick.
C15_Witness ==
    /\ result = Returned("synchronize", Ok)
    /\ DOMAIN peers = {"p1", "p2"}
    /\ {peers["p1"].shortid_list, peers["p2"].shortid_list} = {<<1, 1, 2>>, <<0, 1>>}
    /\ \E i, j \in DOMAIN sent :
          /\ sent[i].msg.kind = "GetMempoolTxs" /\ sent[i].to = "p1"
          /\ sent[j].msg.kind = "GetMempoolTxs" /\ sent[j].to = "p2"

\* C16: no GetMempoolTxs of a tick asks for a short id that is the short id,
\* under the node's nonce and the node's own id, of an entry of the node's
\* mempool, whether or not the peer's id stands for that entry.
C16_HeldEntriesNotRequested ==
    [][result'.op = "synchronize" =>
          \A i \in DOMAIN sent' :
              sent'[i].msg.kind = "GetMempoolTxs" =>
                  /\ sent'[i].msg.shortid_nonce = shortid_nonce'
                  /\ \A k \in 1..Len(mempool.entries) :
                        Shorten(shortid_nonce', SelfId, mempool.entries[k])
                            \notin Range(sent'[i].msg.shortid_list)]_vars

\* A peer advertises the short id of an entry the node holds, and the tick
\* has asked that peer for another id.
C16_Witness ==
    /\ result = Returned("synchronize", Ok)
    /\ \E pid \in DOMAIN peers, k \in 1..Len(mempool.entries), i \in DOMAIN sent :
          /\ Shorten(shortid_nonce, SelfId, mempool.entries[k]) \in Range(peers[pid].shortid_list)
          /\ sent[i].to = pid
          /\ sent[i].msg.kind = "GetMempoolTxs"

\* C17: A and B are connected at the same tip, A's mempool is empty and B
\* holds three transactions; when the MempoolTxs that ends the exchange
\* GetInventory, Inventory, GetMempoolTxs, MempoolTxs has been handled, A's
\* mempool holds exactly B's three transactions.
C17_ExchangeFillsMempool ==
    result.op = "receive_txs" =>
        /\ result.val = Ok
        /\ \A pid \in DOMAIN peers :
              /\ Len(mempool.entries) = Len(PeerEntries(pid))
              /\ Range(mempool.entries) = Range(PeerEntries(pid))

\* The exchange with p2, two of whose transactions have the same short id,
\* is over.
C17_Witness ==
    /\ result = Returned("receive_txs", Ok)
    /\ DOMAIN peers = {"p2"}
    /\ Len(mempool.entries) = 3

\* C18: GetMempoolTxs is answered to the requester with the entries of the
\* mempool, in mempool order, whose txid shortened under the request's nonce
\* and the requester's peer id is among the short ids of the request's list,
\* and with the id of the storage tip; no field of the node changes.
C18_TxsServedUnderRequesterKey ==
    [][result'.op = "send_txs" =>
          \A pid \in MempoolPeers, m \in MempoolGetMempoolTxsInputs :
              Send_txs(pid, m) =>
                  /\ sent' = <<Send(pid, MempoolTxsMsg(
                                Tip_id(storage),
                                SelectSeq(mempool.entries,
                                          LAMBDA tx : Shorten(m.shortid_nonce, pid, tx)
                                                          \in Range(m.shortid_list))))>>
                  /\ UNCHANGED node]_vars

\* A request has been answered with some of the entries of the mempool, but
\* not all.
C18_Witness ==
    /\ result = Returned("send_txs", Ok)
    /\ Len(mempool.entries) = 3
    /\ Len(sent[1].msg.txs) \in {1, 2}

\* C18 as stated: the short ids are made under the request's nonce and the
\* serving node's own id.
C18_AsStated ==
    [][result'.op = "send_txs" =>
          \A pid \in MempoolPeers, m \in MempoolGetMempoolTxsInputs :
              Send_txs(pid, m) =>
                  /\ sent' = <<Send(pid, MempoolTxsMsg(
                                Tip_id(storage),
                                SelectSeq(mempool.entries,
                                          LAMBDA tx : Shorten(m.shortid_nonce, SelfId, tx)
                                                          \in Range(m.shortid_list))))>>
                  /\ UNCHANGED node]_vars

\* C19: a MempoolTxs whose tip is not the id of the storage tip (the node
\* has applied a block since it asked) returns StaleMempoolState with that
\* tip, and none of its transactions is appended: the mempool, and the rest
\* of the node, are unchanged.
C19_StaleReplyDropped ==
    [][result'.op = "receive_txs" =>
          \A m \in TxsMempoolTxsInputs :
              (Receive_txs(m) /\ m.tip # Tip_id(storage)) =>
                  /\ result' = Returned("receive_txs", <<"StaleMempoolState", m.tip>>)
                  /\ mempool' = mempool
                  /\ UNCHANGED node]_vars

\* A reply made at the tip the node had before it applied block 1 has been
\* dropped.
C19_Witness ==
    /\ result = Returned("receive_txs", <<"StaleMempoolState", Id(Genesis)>>)
    /\ Tip_height(storage) = 1

\* C20: of a MempoolTxs with the current tip the transactions are processed
\* in order up to the first that is invalid.  Without an invalid one the
\* handler returns success; with one it returns that failure and appends
\* none of the transactions that follow.  A processed transaction whose
\* output is already spent by an entry (a duplicate or a conflict) is
\* skipped, the others are appended, in order, after the entries held.
C20_ConflictsSkippedGarbageFatal ==
    [][result'.op = "receive_txs" =>
          \A m \in TxsMempoolTxsInputs :
              (Receive_txs(m) /\ m.tip = Tip_id(storage)) =>
                  LET invalid == {i \in DOMAIN m.txs : m.txs[i] = "bad"}
                      processed == {i \in DOMAIN m.txs : \A k \in invalid : i < k}
                      accepted == {i \in processed :
                                      /\ TxInput(m.txs[i]) \in mempool.state.utxos
                                      /\ TxInput(m.txs[i]) \notin SpentByEntries(mempool.entries)
                                      /\ \A j \in processed :
                                            j < i => TxInput(m.txs[j]) # TxInput(m.txs[i])}
                      added == SubSeq(mempool'.entries, Len(mempool.entries) + 1,
                                      Len(mempool'.entries))
                  IN  /\ result'.val = (IF invalid = {} THEN Ok ELSE <<"TxValidation">>)
                      /\ SubSeq(mempool'.entries, 1, Len(mempool.entries)) = mempool.entries
                      /\ Len(added) = Cardinality(accepted)
                      /\ \A i \in accepted : \E a \in DOMAIN added :
                            /\ added[a] = m.txs[i]
                            /\ a = Cardinality({j \in accepted : j <= i})
                      /\ mempool'.state = mempool.state
                      /\ UNCHANGED <<storage, target_tip, peers>>]_vars

\* t3, in conflict with t1, was skipped and t2, which follows it, appended.
C20_Witness ==
    /\ result = Returned("receive_txs", Ok)
    /\ mempool.entries = <<"t1", "t2">>

\* C21: the mempool never holds two entries with the same txid, whatever
\* replies repeat a transaction, in one MempoolTxs or in several.
C21_NoDuplicateEntries ==
    \A i, j \in DOMAIN mempool.entries :
        mempool.entries[i] = mempool.entries[j] => i = j

\* A reply that holds t2 twice, then t4, has been handled with success.
C21_Witness ==
    /\ result = Returned("receive_txs", Ok)
    /\ mempool.entries = <<"t2", "t4">>

\* C22: a tick that finds the ttl at 1 sets it back to 50, draws a new nonce
\* and gives it to every peer's record, and empties every peer's list; any
\* other tick leaves the nonce and every peer's nonce and list as they are;
\* no other operation changes the nonce or the ttl.
C22_RotationClearsPeerLists ==
    [][/\ (result'.op = "synchronize" /\ shortid_nonce_ttl = 1) =>
            /\ shortid_nonce_ttl' = SHORTID_NONCE_TTL
            /\ shortid_nonce' \in Nonces
            /\ DOMAIN peers' = DOMAIN peers
            /\ \A p \in DOMAIN peers :
                  /\ peers'[p].shortid_nonce = shortid_nonce'
                  /\ peers'[p].shortid_list = <<>>
       /\ (result'.op = "synchronize" /\ shortid_nonce_ttl # 1) =>
            /\ shortid_nonce' = shortid_nonce
            /\ DOMAIN peers' = DOMAIN peers
            /\ \A p \in DOMAIN peers :
                  /\ peers'[p].shortid_nonce = peers[p].shortid_nonce
                  /\ peers'[p].shortid_list = peers[p].shortid_list
       /\ result'.op # "synchronize" =>
            /\ shortid_nonce' = shortid_nonce
            /\ shortid_nonce_ttl' = shortid_nonce_ttl]_vars

\* The ttl ran out with two peers that had advertised their lists; the node
\* and both records hold the nonce drawn, and the lists are empty.
C22_Witness ==
    /\ result = Returned("synchronize", Ok)
    /\ shortid_nonce_ttl = SHORTID_NONCE_TTL
    /\ DOMAIN peers = {"p1", "p2"}
    /\ \A p \in DOMAIN peers :
          /\ peers[p].tip # <<>>
          /\ peers[p].shortid_nonce = shortid_nonce
          /\ peers[p].shortid_list = <<>>
    /\ shortid_nonce = 1

\* C23: a tick that finds the ttl at 1, peers with lists that are not empty
\* and target_tip equal to the storage tip leaves every peer's list empty
\* and the node's and the peers' nonce at the value drawn, and sends no
\* GetMempoolTxs.
C23_ExpiryTickRequestsNothing ==
    [][(/\ result'.op = "synchronize"
        /\ shortid_nonce_ttl = 1
        /\ Id(target_tip) = Tip_id(storage)
        /\ \E p \in DOMAIN peers : peers[p].shortid_list # <<>>) =>
            /\ \A p \in DOMAIN peers' :
                  /\ peers'[p].shortid_list = <<>>
                  /\ peers'[p].shortid_nonce = shortid_nonce'
            /\ \A i \in DOMAIN sent' : sent'[i].msg.kind # "GetMempoolTxs"]_vars

\* The ttl ran out at the target, with a peer that had advertised a list,
\* and the tick has sent nothing.
C23_Witness ==
    /\ result = Returned("synchronize", Ok)
    /\ shortid_nonce_ttl = SHORTID_NONCE_TTL
    /\ Id(target_tip) = Tip_id(storage)
    /\ \E p \in DOMAIN peers : peers[p].tip # <<>> /\ peers[p].shortid_list = <<>>
    /\ sent = <<>>

\* C24: after create_block the storage tip is the header that make_block
\* produced (on the mempool with its timestamp advanced), the block stored
\* last carries it with a signature that verifies under the network key, the
\* block's transactions are the entries of the mempool in their order, and
\* the mempool sits on the new state, with entries that are valid on it.
C24_CreatedBlockStoredAndSigned ==
    [][result'.op = "create_block" =>
          \A ts \in ChainTimestamps :
              Create_block(ts, NetworkKey) =>
                  LET made == Mempool_make_block(
                                  Mempool_update_timestamp(
                                      mempool, Max(ts, storage.tip.header.timestamp_ms)))
                      block == storage'.blocks[Len(storage'.blocks)]
                  IN  /\ Tip_id(storage') = Id(made.tip)
                      /\ Len(storage'.blocks) = Len(storage.blocks) + 1
                      /\ block.header = storage'.tip.header
                      /\ block.signature = storage'.tip.signature
                      /\ Verify_block_signature(block.header, block.signature, NetworkKey)
                      /\ block.txs = mempool.entries
                      /\ storage'.state = made
                      /\ mempool'.state = made
                      /\ \A i \in DOMAIN mempool'.entries :
                            TxInput(mempool'.entries[i]) \in made.utxos]_vars

\* A block with the transaction of the mempool has been created.
C24_Witness ==
    /\ result = Returned("create_block", Ok)
    /\ storage.blocks[Len(storage.blocks)].txs = <<"t1">>
    /\ storage.tip.signature.key = NetworkKey

\* C25: every create_block signs one header, at the height after the storage
\* tip, and stores that block as the new tip before it returns; the blocks
\* stored are never replaced and sit each at its own height; so no two
\* blocks are ever signed by create_block for one height.
C25_OneSignedBlockPerHeight ==
    [][/\ result'.op = "create_block" =>
            /\ Tip_height(storage') = Tip_height(storage) + 1
            /\ storage'.tip.signature = Sign(Id(storage'.tip.header), NetworkKey)
            /\ Len(storage'.blocks) = Len(storage.blocks) + 1
            /\ storage'.blocks[Len(storage'.blocks)].header = storage'.tip.header
       /\ Len(storage'.blocks) >= Len(storage.blocks)
       /\ SubSeq(storage'.blocks, 1, Len(storage.blocks)) = storage.blocks
       /\ \A h \in DOMAIN storage'.blocks : storage'.blocks[h].header.height = h]_vars

\* A second block has been created, with a peer connected.
C25_Witness ==
    /\ result = Returned("create_block", Ok)
    /\ Tip_height(storage) = MaxHeight
    /\ \A h \in DOMAIN storage.blocks : storage.blocks[h].header.timestamp_ms = 0
    /\ "p1" \in DOMAIN peers

\* C26: a fresh node and an honest peer with SyncHeight blocks, under fair
\* ticks and deliveries: every GetBlock the node sends is for the height
\* after its tip, while its tip is below the peer's (so the blocks are asked
\* for in order, and none is asked for once the peer's height is reached);
\* the tip moves up one block at a time; and in the end the storage tip is
\* at the peer's height and target_tip is the peer's tip, for ever.
C26_FreshSyncCompletes ==
    /\ [][/\ \A i \in DOMAIN sent' :
                sent'[i].msg.kind = "GetBlock" =>
                    /\ sent'[i].msg.height = Tip_height(storage) + 1
                    /\ Tip_height(storage) < SyncHeight
          /\ Tip_height(storage') \in {Tip_height(storage), Tip_height(storage) + 1}]_vars
    /\ <>[](/\ Tip_height(storage) = SyncHeight
            /\ storage.tip.header = SyncPeerStorage.tip.header
            /\ target_tip = SyncPeerStorage.tip.header)

\* The node has caught up with the peer and ticked.
C26_Witness ==
    /\ result = Returned("synchronize", Ok)
    /\ Tip_height(storage) = SyncHeight
    /\ target_tip = SyncPeerStorage.tip.header
    /\ Len(storage.blocks) = SyncHeight

\* C27: of two ticks in succession, with nothing in between, each sends at
\* most one GetBlock and asks for no short id twice; the second, unless it
\* rotates the nonce, asks again for every short id the first asked for.
C27_EachTickWithoutDuplicates ==
    [][(result.op = "synchronize" /\ result'.op = "synchronize") =>
          LET first == {i \in DOMAIN sent : sent[i].msg.kind = "GetMempoolTxs"}
              second == {i \in DOMAIN sent' : sent'[i].msg.kind = "GetMempoolTxs"}
              ids(msgs, S) == UNION {Range(msgs[i].msg.shortid_list) : i \in S}
              once(msgs, S) ==
                  /\ \A i \in S : \A a, b \in DOMAIN msgs[i].msg.shortid_list :
                        msgs[i].msg.shortid_list[a] = msgs[i].msg.shortid_list[b] => a = b
                  /\ \A i, j \in S :
                        i # j => Range(msgs[i].msg.shortid_list)
                                    \cap Range(msgs[j].msg.shortid_list) = {}
          IN  /\ Cardinality({i \in DOMAIN sent : sent[i].msg.kind = "GetBlock"}) <= 1
              /\ Cardinality({i \in DOMAIN sent' : sent'[i].msg.kind = "GetBlock"}) <= 1
              /\ once(sent, first)
              /\ once(sent', second)
              /\ ids(sent', second) = (IF shortid_nonce_ttl = 1 THEN {} ELSE ids(sent, first))]_vars

\* The second tick has asked a peer for both short ids, with two peers that
\* advertise them in the table.
C27_Witness ==
    /\ result = Returned("synchronize", Ok)
    /\ shortid_nonce_ttl = SHORTID_NONCE_TTL - 2
    /\ \A pid \in RotatePeers : pid \in DOMAIN peers /\ peers[pid].shortid_list = <<1, 2>>
    /\ \E i \in DOMAIN sent :
          sent[i].msg.kind = "GetMempoolTxs" /\ Range(sent[i].msg.shortid_list) = {1, 2}

\* C27 as stated: of two ticks in succession, each sends at most one
\* GetBlock, and no short id the first asked for is asked for by the second.
C27_AsStated ==
    [][(result.op = "synchronize" /\ result'.op = "synchronize") =>
          /\ Cardinality({i \in DOMAIN sent : sent[i].msg.kind = "GetBlock"}) <= 1
          /\ Cardinality({i \in DOMAIN sent' : sent'[i].msg.kind = "GetBlock"}) <= 1
          /\ \A i \in DOMAIN sent, j \in DOMAIN sent' :
                (sent[i].msg.kind = "GetMempoolTxs" /\ sent'[j].msg.kind = "GetMempoolTxs") =>
                    Range(sent[i].msg.shortid_list) \cap Range(sent'[j].msg.shortid_list) = {}]_vars

\* C28: peer_connected enters the peer with no tip, no inventory owed and an
\* empty list, stamped with the node's nonce and the time, and sends it one
\* GetInventory with the node's nonce; peer_diconnected removes the entry;
\* nothing else changes the set of keys of the table, and a tick sends only
\* to peers in the table.
C28_PeerLifecycle ==
    [][/\ result'.op = "peer_connected" =>
            \E pid \in PublishPeers :
                /\ DOMAIN peers' = DOMAIN peers \cup {pid}
                /\ peers'[pid].tip = <<>>
                /\ peers'[pid].needs_our_inventory = FALSE
                /\ peers'[pid].shortid_list = <<>>
                /\ peers'[pid].shortid_nonce = shortid_nonce
                /\ peers'[pid].last_inventory_received = now
                /\ \A p \in DOMAIN peers \ {pid} : peers'[p] = peers[p]
                /\ sent' = <<Send(pid, GetInventoryMsg(CURRENT_VERSION, shortid_nonce))>>
                /\ shortid_nonce' = shortid_nonce
       /\ result'.op = "peer_diconnected" =>
            \E pid \in PublishPeers :
                /\ DOMAIN peers' = DOMAIN peers \ {pid}
                /\ \A p \in DOMAIN peers' : peers'[p] = peers[p]
                /\ sent' = <<>>
       /\ result'.op \notin {"peer_connected", "peer_diconnected"} =>
            DOMAIN peers' = DOMAIN peers
       /\ result'.op = "synchronize" =>
            \A i \in DOMAIN sent' : sent'[i].to \in DOMAIN peers']_vars

\* The second peer has just connected, next to a first one that has
\* advertised its tip.
C28_Witness ==
    /\ result = Returned("peer_connected", Ok)
    /\ DOMAIN peers = {"p1", "p2"}
    /\ peers["p1"].tip # <<>>
    /\ peers["p2"] = NewPeerInfo
    /\ sent = <<Send("p2", GetInventoryMsg(CURRENT_VERSION, shortid_nonce))>>

\* C29: the ttl is at least 1 before every tick, so its decrement never
\* underflows; every tick completes, leaves the ttl between 1 and
\* SHORTID_NONCE_TTL, keeps the keys of the peer table and sends only to
\* peers in the table: nothing with an empty table.
C29_TickNeverFails ==
    /\ [](shortid_nonce_ttl \in 1..SHORTID_NONCE_TTL)
    /\ [][result'.op = "synchronize" =>
             /\ result' = Returned("synchronize", Ok)
             /\ shortid_nonce_ttl' =
                    (IF shortid_nonce_ttl = 1 THEN SHORTID_NONCE_TTL ELSE shortid_nonce_ttl - 1)
             /\ DOMAIN peers' = DOMAIN peers
             /\ \A i \in DOMAIN sent' : sent'[i].to \in DOMAIN peers
             /\ DOMAIN peers = {} => sent' = <<>>
             /\ UNCHANGED <<storage, target_tip, mempool>>]_vars

\* The tick made with the ttl at 1, an empty peer table and a target other
\* than the tip has completed.
C29_Witness ==
    /\ result = Returned("synchronize", Ok)
    /\ shortid_nonce_ttl = SHORTID_NONCE_TTL
    /\ DOMAIN peers = {}
    /\ Id(target_tip) # Tip_id(storage)
    /\ sent = <<>>

\* C30: process_message reports success to the host for a block at a height
\* the node does not want and for transactions sent for another tip: it
\* never returns BlockNotRelevant or StaleMempoolState.
C30_NonFatalErrorsAbsorbed ==
    result.op \in {"receive_block", "receive_txs"} =>
        result.val[1] \notin {"BlockNotRelevant", "StaleMempoolState"}

\* C31: GetBlock for a height at which the storage holds a block is
\* answered with one Block message, that block, to the requester; for any
\* other height the result is BlockNotFound(height) and nothing is sent; the
\* node's state is unchanged in both cases.
C31_GetBlockServedOrNotFound ==
    [][\A pid \in ChainPeers, m \in ChainGetBlockInputs :
          Send_block(pid, m) =>
              LET held == {b \in Range(storage.blocks) : b.header.height = m.height}
              IN  /\ UNCHANGED node
                  /\ Cardinality(held) <= 1
                  /\ held # {} =>
                        /\ \E b \in held : sent' = <<Send(pid, b)>>
                        /\ result' = Returned("send_block", Ok)
                  /\ held = {} =>
                        /\ sent' = <<>>
                        /\ result' = Returned("send_block", <<"BlockNotFound", m.height>>)]_vars

\* The block at height 1 has been sent from a storage of two blocks.
C31_Witness ==
    /\ result = Returned("send_block", Ok)
    /\ Len(storage.blocks) = 2
    /\ Len(sent) = 1
    /\ sent[1].msg = storage.blocks[1]
    /\ sent[1].msg.header.height = 1

\* C32: every GetMempoolTxs and every GetInventory a tick sends carries the
\* nonce the node has after the tick: the rotation comes first.
C32_TickRequestsCarryOneNonce ==
    [][result'.op = "synchronize" =>
          \A i \in DOMAIN sent' :
              sent'[i].msg.kind \in {"GetMempoolTxs", "GetInventory"} =>
                  sent'[i].msg.shortid_nonce = shortid_nonce']_vars

\* A tick has asked the peer for a transaction and for its inventory.
C32_Witness ==
    /\ result = Returned("synchronize", Ok)
    /\ \E i \in DOMAIN sent : sent[i].msg.kind = "GetMempoolTxs"
    /\ \A pid \in NoncePeers :
          \E i \in DOMAIN sent : sent[i].msg.kind = "GetInventory" /\ sent[i].to = pid

\* C33: in the reconciliation of a tick, for some order of the peers, every
\* short id that a peer lists and the mempool does not hold is asked for
\* from one peer only, the one that lists it at the smallest position, the
\* first in the order among those; nothing else is asked for; each request
\* lists its ids once, by increasing position in the peer's list; and no
\* peer is sent two requests or an empty one.
C33_RoundRobinClaimRule ==
    [][(result'.op = "synchronize" /\ Id(target_tip) = Tip_id(storage)) =>
          LET held == {Shorten(shortid_nonce', SelfId, mempool.entries[i])
                       : i \in 1..Len(mempool.entries)}
              advertised == UNION {Range(peers'[p].shortid_list) : p \in DOMAIN peers'}
              pos(p, id) == CHOOSE k \in DOMAIN peers'[p].shortid_list :
                                /\ peers'[p].shortid_list[k] = id
                                /\ \A j \in 1..(k - 1) : peers'[p].shortid_list[j] # id
              lists(id) == {p \in DOMAIN peers' : id \in Range(peers'[p].shortid_list)}
              requests == {i \in DOMAIN sent' : sent'[i].msg.kind = "GetMempoolTxs"}
              asked(p) == UNION {Range(sent'[i].msg.shortid_list)
                                 : i \in {j \in requests : sent'[j].to = p}}
          IN  /\ \E order \in SetToSeqs(DOMAIN peers') :
                    LET idx(p) == CHOOSE k \in DOMAIN order : order[k] = p
                        before(p, q, id) == \/ pos(p, id) < pos(q, id)
                                            \/ pos(p, id) = pos(q, id) /\ idx(p) <= idx(q)
                        winner(id) == CHOOSE p \in lists(id) : \A q \in lists(id) : before(p, q, id)
                    IN  \A p \in DOMAIN peers' :
                            asked(p) = {id \in advertised \ held : winner(id) = p}
              /\ \A i \in requests :
                    LET list == sent'[i].msg.shortid_list
                    IN  /\ list # <<>>
                        /\ \A a, b \in DOMAIN list :
                              a < b => pos(sent'[i].to, list[a]) < pos(sent'[i].to, list[b])
              /\ \A i, j \in requests : i # j => sent'[i].to # sent'[j].to]_vars

\* Two peers with the same list, of which the mempool holds no entry, and a
\* tick that has asked one of them for all of it.
C33_Witness ==
    /\ result = Returned("synchronize", Ok)
    /\ DOMAIN peers = {"p1", "p2"}
    /\ peers["p1"].shortid_list = <<0, 1>>
    /\ peers["p2"].shortid_list = <<0, 1>>
    /\ mempool.entries = <<>>
    /\ \E i \in DOMAIN sent : sent[i].msg = GetMempoolTxsMsg(shortid_nonce, <<0, 1>>)

\* C34: the timestamps of the stored blocks never decrease with the height,
\* starting from the initial tip's; the block create_block stores has a
\* timestamp that is neither below the tip's of before nor below the one
\* asked for, whichever of the two is the greater.
C34_TimestampsNeverRegress ==
    /\ [](/\ \A i \in DOMAIN storage.blocks :
                Genesis.timestamp_ms <= storage.blocks[i].header.timestamp_ms
          /\ \A i, j \in DOMAIN storage.blocks :
                i <= j => storage.blocks[i].header.timestamp_ms
                              <= storage.blocks[j].header.timestamp_ms)
    /\ [][result'.op = "create_block" =>
             \E ts \in ChainTimestamps :
                 /\ Create_block(ts, NetworkKey)
                 /\ mempool'.timestamp_ms
                        = Max(mempool.timestamp_ms, Max(ts, storage.tip.header.timestamp_ms))
                 /\ storage'.tip.header.timestamp_ms >= storage.tip.header.timestamp_ms
                 /\ storage'.tip.header.timestamp_ms >= ts]_vars

\* A block has been created with timestamp 0 on top of the authority's first
\* block, whose timestamp is 1.
C34_Witness ==
    /\ result = Returned("create_block", Ok)
    /\ Len(storage.blocks) = 2
    /\ storage.blocks[1] = HonestBlock(1)
    /\ storage.tip.header.timestamp_ms = 1

C36_CaughtUpAfterCreateBlock ==
    [][(/\ result.op = "create_block"
        /\ Id(target_tip) = storage.tip.header.prev
        /\ result'.op = "synchronize") =>
          \A i \in DOMAIN sent' : sent'[i].msg.kind # "GetBlock"]_vars

\* C37: every GetMempoolTxs of a tick goes to a peer whose stored list was
\* made under the nonce the request carries: the nonce recorded with the
\* peer's list is the request's.
C37_RequestsUnderListNonce ==
    [][result'.op = "synchronize" =>
          \A i \in DOMAIN sent' :
              sent'[i].msg.kind = "GetMempoolTxs" =>
                  peers'[sent'[i].to].shortid_nonce = sent'[i].msg.shortid_nonce]_vars

\* C38: an Inventory refused with InvalidBlockSignature leaves the node as
\* it was: the target, and the tip, nonce and list kept for the sender.
C38_ForgedInventoryChangesNothing ==
    [][result' = Returned("receive_inventory", <<"InvalidBlockSignature">>) =>
          /\ UNCHANGED node
          /\ sent' = <<>>]_vars

\* An Inventory with a tip above the target and a signature that does not
\* verify has been refused, and the peer still has the tip and the list of
\* its inventory of before.
C38_Witness ==
    /\ result = Returned("receive_inventory", <<"InvalidBlockSignature">>)
    /\ "p1" \in DOMAIN peers
    /\ peers["p1"].tip = <<Genesis>>
    /\ peers["p1"].shortid_list = <<2>>
    /\ target_tip = Genesis

\* C39: no message handler adds or removes a key of the peer table; Block,
\* GetBlock, GetMempoolTxs and MempoolTxs leave the table as it is; a
\* GetInventory or an Inventory of the current version from a peer that is
\* not in the table is accepted and leaves the table as it is, and such an
\* Inventory with a tip above the target, validly signed, becomes the target.
C39_HandlersKeepPeerKeys ==
    [][/\ result'.op \in {"process_inventory_request", "receive_inventory", "send_block",
                          "receive_block", "send_txs", "receive_txs"} =>
            DOMAIN peers' = DOMAIN peers
       /\ result'.op \in {"send_block", "receive_block", "send_txs", "receive_txs"} =>
            peers' = peers
       /\ \A pid \in HostPeers, m \in HostMessages :
            (/\ pid \notin DOMAIN peers
             /\ m.kind \in {"GetInventory", "Inventory"}
             /\ Process_message(pid, m)) =>
                /\ result'.val = Ok
                /\ peers' = peers
                /\ m.kind = "Inventory" =>
                      target_tip' = (IF m.tip.height > target_tip.height
                                     THEN m.tip ELSE target_tip)]_vars

\* An Inventory from a peer that is not in the table has been accepted and
\* has moved the target above the storage tip.
C39_Witness ==
    /\ result = Returned("receive_inventory", Ok)
    /\ DOMAIN peers = {}
    /\ target_tip = HonestHeader(1)
    /\ Tip_height(storage) = 0

\* C40: when a reply fails at its k-th transaction with an error that is
\* not a conflict, the entries of before are all still there, in their
\* places; each transaction before the k-th is in the mempool or in conflict
\* with it; and nothing from the k-th on has been appended.
C40_FailedReplyKeepsEarlierTxs ==
    [][result'.op = "receive_txs" =>
          \A m \in TxsMempoolTxsInputs :
              (Receive_txs(m) /\ result'.val = <<"TxValidation">>) =>
                  LET k == CHOOSE i \in DOMAIN m.txs :
                               /\ m.txs[i] = "bad"
                               /\ \A j \in 1..(i - 1) : m.txs[j] # "bad"
                      added == SubSeq(mempool'.entries, Len(mempool.entries) + 1,
                                      Len(mempool'.entries))
                  IN  /\ \E i \in DOMAIN m.txs : m.txs[i] = "bad"
                      /\ SubSeq(mempool'.entries, 1, Len(mempool.entries)) = mempool.entries
                      /\ \A i \in 1..(k - 1) :
                            \/ m.txs[i] \in Range(mempool'.entries)
                            \/ TxInput(m.txs[i]) \in SpentByEntries(mempool'.entries)
                            \/ TxInput(m.txs[i]) \notin mempool.state.utxos
                      /\ Range(added) \subseteq {m.txs[i] : i \in 1..(k - 1)}
                      /\ Len(added) <= k - 1]_vars

\* The reply t4, bad, t2 has failed: t4 is in the mempool and t2 is not.
C40_Witness ==
    /\ result = Returned("receive_txs", <<"TxValidation">>)
    /\ mempool.entries = <<"t4">>

\* C10: an Inventory whose tip is not higher than target_tip is
\* accepted without a signature check and leaves target_tip as it is; one
\* whose tip is strictly higher than target_tip is verified, and becomes the
\* target if the signature verifies, and returns InvalidBlockSignature with
\* target_tip unchanged if not.
C10_InventoryVerifiedAboveTarget ==
    [][result'.op = "receive_inventory" => \A pid \in ChainPeers, m \in ChainInventoryInputs :
          (Receive_inventory(pid, m) /\ m.version = CURRENT_VERSION) =>
              IF m.tip.height <= target_tip.height
              THEN result' = Returned("receive_inventory", Ok) /\ target_tip' = target_tip
              ELSE IF Verify_block_signature(m.tip, m.tip_signature, NetworkKey)
              THEN result' = Returned("receive_inventory", Ok) /\ target_tip' = m.tip
              ELSE /\ result' = Returned("receive_inventory", <<"InvalidBlockSignature">>)
                   /\ target_tip' = target_tip]_vars

\* An unsigned tip of the target's own height was accepted from a connected
\* peer, above the height of the storage tip.
C10_Witness ==
    /\ result = Returned("receive_inventory", Ok)
    /\ "p1" \in DOMAIN peers
    /\ peers["p1"].tip = <<ForgedHeader(target_tip.height)>>
    /\ target_tip.height > Tip_height(storage)

\* C10 as stated, with the node's current height read as the height of the
\* chain (Storage::tip_height), in the states where the storage tip is not
\* above the target.
C10_AsStated ==
    [][result'.op = "receive_inventory" => \A pid \in ChainPeers, m \in ChainInventoryInputs :
          (/\ Receive_inventory(pid, m)
           /\ m.version = CURRENT_VERSION
           /\ Tip_height(storage) <= target_tip.height) =>
              IF m.tip.height <= Tip_height(storage)
              THEN result' = Returned("receive_inventory", Ok) /\ target_tip' = target_tip
              ELSE IF Verify_block_signature(m.tip, m.tip_signature, NetworkKey)
              THEN result' = Returned("receive_inventory", Ok) /\ target_tip' = m.tip
              ELSE /\ result' = Returned("receive_inventory", <<"InvalidBlockSignature">>)
                   /\ target_tip' = target_tip]_vars

====
